---------------------------- MODULE Spec2Model ----------------------------
(***************************************************************************)
(* Model of the orchestration engine of xiaozhi-VLPro                      *)
(* (src/src/application.py, class Application): the device state machine,  *)
(* the task scheduler of the main loop, the protocol callbacks that run on *)
(* the asyncio loop thread, the detached delayed workers and the display   *)
(* thread.  Every thread has a program counter pc[t]; one step of the      *)
(* model is one block of statements of one thread, so the interleavings of *)
(* the threads at the statements that read or write shared fields are the  *)
(* behaviours of the model.                                                *)
(*                                                                         *)
(* The audio codec, the wake-word detector and the protocol client are not *)
(* part of the sources at hand; they are modelled from their description   *)
(* in spec.md (sections 4.2, 4.3, 4.6).                                    *)
(***************************************************************************)
EXTENDS Naturals, Sequences, FiniteSets, TLC

(***************************************************************************)
(* Bounds of the model.                                                    *)
(***************************************************************************)
\* number of external events (user input, wake word, server and network
\* events) in one behaviour
MaxEvents == 4
\* number of external events in one behaviour of SpecShort
MaxEventsShort == 3
\* largest length of the playback queue
MaxQueue == 2
\* largest length of the task queue main_tasks
MaxTasks == 2

\* packets taken by one output cycle (spec.md 4.2)
BatchSize == 10

IDLE == "IDLE"
CONNECTING == "CONNECTING"
LISTENING == "LISTENING"
SPEAKING == "SPEAKING"
DeviceState == {IDLE, CONNECTING, LISTENING, SPEAKING}

\* AbortReason
NONE == "NONE"
WAKE_WORD_DETECTED == "WAKE_WORD_DETECTED"

\* the scheduler thread, the asyncio loop thread, the tts-stop worker
\* (delayed_state_change), the post-abort worker
\* (start_listening_after_abort) and the display thread
Threads == {"main", "io", "w1", "w2", "ui"}
Workers == {"w1", "w2"}

VARIABLES
    device_state,       \* Application.device_state
    keep_listening,     \* Application.keep_listening
    aborted,            \* Application.aborted
    main_tasks,         \* Application.main_tasks, a sequence of task kinds
    tasks,              \* the snapshot _process_scheduled_tasks is running
    schedEvent,         \* events[SCHEDULE_EVENT]
    outEvent,           \* events[AUDIO_OUTPUT_READY_EVENT]
    queue,              \* audio_codec.audio_decode_queue
    inputActive,        \* audio_codec.input_stream.is_active()
    outputActive,       \* audio_codec.output_stream.is_active()
    outPoller,          \* an _audio_output_event_trigger thread is alive
    wwPaused,           \* wake_word_detector.paused
    channelOpen,        \* protocol.is_audio_channel_opened()
    ioQueue,            \* coroutines handed to the loop, not yet started
    openFuture,         \* the future _start_listening_impl/_toggle wait on
    flows,              \* _connect_and_start_listening coroutines suspended
    lastSent,           \* the last protocol message handed to the protocol
    status,             \* the text last given to display.update_status
    notified,           \* the state last given to the state-change listeners
    alerts,             \* the number of calls of alert (lines 996-1001)
    reconnect,          \* how far the reconnection (lines 304-351) has come
    retry_count,        \* _reconnect: its local retry_count
    connectCalls,       \* the calls of protocol.connect() made by _reconnect
    scheduled,          \* the calls of schedule so far: the kind of task given
    executed,           \* the tasks that have run to their end, in that order
    errors,             \* the errors logged by the except clauses of
                        \* _process_scheduled_tasks and set_device_state
    mutex,              \* Application.mutex: the thread that holds it
    on_state_changed_callbacks, \* Application.on_state_changed_callbacks
    invoked,            \* set_device_state: the listeners called so far by
                        \* the call in progress and what they were given,
                        \* per thread
    json_data,          \* _on_incoming_json: its argument
    audioSent,          \* the calls of protocol.send_audio dispatched: the
                        \* device_state and the state of the channel at each
    dropped,            \* _on_incoming_audio: the packets it did not queue
    pc,                 \* position of every thread
    target,             \* set_device_state: its argument, per thread
    sdsRet,             \* set_device_state: where it returns to, per thread
    ab,                 \* abort_speaking: its argument, where it returns to
                        \* and whether it began in SPEAKING, per thread
    budget              \* external events left

vars == <<device_state, keep_listening, aborted, main_tasks, tasks, schedEvent,
          outEvent, queue, inputActive, outputActive, outPoller, wwPaused,
          channelOpen, ioQueue, openFuture, flows, lastSent, status, notified,
          alerts, reconnect, retry_count, connectCalls, scheduled, executed,
          errors, mutex, on_state_changed_callbacks, invoked, json_data,
          audioSent, dropped, pc, target, sdsRet, ab, budget>>

\* groups used in UNCHANGED
appVars == <<device_state, keep_listening, aborted>>
schedVars == <<main_tasks, tasks, schedEvent>>
audioVars == <<outEvent, queue, inputActive, outputActive, outPoller>>
protoVars == <<channelOpen, ioQueue, openFuture, flows, lastSent>>
dispVars == <<status, notified, alerts>>
frameVars == <<target, sdsRet, ab>>
rcVars == <<reconnect, retry_count, connectCalls>>
lstVars == <<on_state_changed_callbacks, invoked>>
logVars ==
    <<scheduled, executed, errors, mutex, lstVars, json_data, audioSent,
      dropped>>

----------------------------------------------------------------------------
(***************************************************************************)
(* Init: the state after __init__ and _initialize_without_connect.         *)
(***************************************************************************)
\* no control message is being handled
NoMessage == [type |-> "none", state |-> "none", payload |-> "none"]

NoAbort == [reason |-> "none", ret |-> "none", speaking |-> FALSE]

InitWith(n) ==
    /\ device_state = IDLE
    /\ keep_listening = FALSE
    /\ aborted = FALSE
    /\ main_tasks = <<>>
    /\ tasks = <<>>
    /\ schedEvent = FALSE
    /\ outEvent = FALSE
    /\ queue = <<>>
    /\ inputActive = FALSE
    /\ outputActive = FALSE
    /\ outPoller = FALSE
    /\ wwPaused = FALSE
    /\ channelOpen = FALSE
    /\ ioQueue = <<>>
    /\ openFuture = "none"
    /\ flows = [connecting |-> 0, opening |-> 0]
    /\ lastSent = <<"none", "">>
    /\ status = "none"
    /\ notified = "none"
    /\ alerts = 0
    /\ reconnect = "none"
    /\ retry_count = 0
    /\ connectCalls = 0
    /\ scheduled = <<>>
    /\ executed = <<>>
    /\ errors = 0
    /\ mutex = "free"
    /\ on_state_changed_callbacks = <<>>
    /\ invoked = [t \in Threads |-> <<>>]
    /\ json_data = NoMessage
    /\ audioSent = {}
    /\ dropped = 0
    /\ pc = [t \in Threads |-> IF t = "main" THEN "loop" ELSE "idle"]
    /\ target = [t \in Threads |-> "none"]
    /\ sdsRet = [t \in Threads |-> "none"]
    /\ ab = [t \in Threads |-> NoAbort]
    /\ budget = n

Init == InitWith(MaxEvents)

\* the same state with the smaller number of external events
InitShort == InitWith(MaxEventsShort)

----------------------------------------------------------------------------
(***************************************************************************)
(* Helpers.                                                                *)
(***************************************************************************)
\* control of thread t moves to label l
Goto(t, l) == pc' = [pc EXCEPT ![t] = l]

\* Application.schedule: append under the mutex, then set SCHEDULE_EVENT.
\* The de-duplication of lines 262-265 matches the text of the callable: of
\* the tasks of this model only the lambda defined inside abort_speaking
\* (line 992) has 'abort_speaking' in its text.  Its kind is "toggle" when
\* the abort_speaking that started the worker began in SPEAKING and
\* "toggle_o" otherwise; the task _toggle_chat_state_impl it schedules is
\* "toggle_impl_r" or "toggle_impl_o", and "toggle_impl" when the display
\* scheduled it.  The code treats the kinds of a pair alike.
IsAbortKind(k) == k \in {"toggle", "toggle_o"}

Scheduled(q, k) ==
    IF IsAbortKind(k) /\ \E i \in 1..Len(q) : IsAbortKind(q[i])
    THEN q
    ELSE Append(q, k)

schedule(k) ==
    /\ main_tasks' = Scheduled(main_tasks, k)
    /\ schedEvent' = TRUE

\* room in the task queue for one more task (a bound of the model)
TaskRoom == Len(main_tasks) < MaxTasks

\* a call of set_device_state(s) by thread t that returns to label r
CallSds(t, s, r) ==
    /\ pc' = [pc EXCEPT ![t] = "sds_check"]
    /\ target' = [target EXCEPT ![t] = s]
    /\ sdsRet' = [sdsRet EXCEPT ![t] = r]

\* a call of abort_speaking(reason) by thread t that returns to label r
CallAbort(t, reason, r) ==
    /\ pc' = [pc EXCEPT ![t] = "abort"]
    /\ ab' = [ab EXCEPT ![t] = [reason |-> reason, ret |-> r, speaking |-> FALSE]]

----------------------------------------------------------------------------
(***************************************************************************)
(* set_device_state (lines 725-787), run by thread t.                      *)
(***************************************************************************)
\* set_device_state without the re-entrance test of lines 727-728
SdsCheckWithoutTest(t) ==
    /\ pc[t] = "sds_check"
    /\ Goto(t, IF device_state = SPEAKING THEN "sds_wait" ELSE "sds_assign")
    /\ UNCHANGED <<appVars, schedVars, audioVars, wwPaused, protoVars, dispVars,
                   frameVars, budget>>
    /\ UNCHANGED <<rcVars, logVars>>

\* lines 727-734: the re-entrance test; old_state; leaving SPEAKING waits
SdsCheck(t) ==
    /\ pc[t] = "sds_check"
    /\ Goto(t, CASE device_state = target[t] -> "sds_ret"
                 [] device_state = SPEAKING -> "sds_wait"
                 [] OTHER -> "sds_assign")
    /\ UNCHANGED <<appVars, schedVars, audioVars, wwPaused, protoVars, dispVars,
                   frameVars, budget>>
    /\ UNCHANGED <<rcVars, logVars>>

\* line 728: the call returns, the test having found target == current
SdsReturn(t) ==
    /\ pc[t] = "sds_ret"
    /\ Goto(t, sdsRet[t])
    /\ target' = [target EXCEPT ![t] = "none"]
    /\ sdsRet' = [sdsRet EXCEPT ![t] = "none"]
    /\ UNCHANGED <<appVars, schedVars, audioVars, wwPaused, protoVars, dispVars,
                   ab, budget>>
    /\ UNCHANGED <<rcVars, logVars>>

\* line 734: audio_codec.wait_for_audio_complete() returns: the queue is
\* empty, or the maximum wait has passed (spec.md 4.2)
SdsWait(t) ==
    /\ pc[t] = "sds_wait"
    /\ Goto(t, "sds_assign")
    /\ UNCHANGED <<appVars, schedVars, audioVars, wwPaused, protoVars, dispVars,
                   frameVars, budget>>
    /\ UNCHANGED <<rcVars, logVars>>

\* line 736
SdsAssign(t) ==
    /\ pc[t] = "sds_assign"
    /\ device_state' = target[t]
    /\ Goto(t, "sds_fx")
    /\ UNCHANGED <<keep_listening, aborted, schedVars, audioVars, wwPaused,
                   protoVars, dispVars, frameVars, budget>>
    /\ UNCHANGED <<rcVars, logVars>>

\* lines 740-787: the side effects of the state entered, then the listeners
SdsEffects(t) ==
    /\ pc[t] = "sds_fx"
    /\ status' = target[t]
    /\ notified' = target[t]
    /\ outputActive' = CASE target[t] = IDLE -> FALSE
                         [] target[t] = SPEAKING -> TRUE
                         [] OTHER -> outputActive
    /\ inputActive' = CASE target[t] = LISTENING -> TRUE
                        [] target[t] = SPEAKING -> FALSE
                        [] OTHER -> inputActive
    /\ wwPaused' = IF target[t] = SPEAKING THEN TRUE ELSE wwPaused
    /\ Goto(t, sdsRet[t])
    /\ target' = [target EXCEPT ![t] = "none"]
    /\ sdsRet' = [sdsRet EXCEPT ![t] = "none"]
    /\ UNCHANGED <<appVars, schedVars, outEvent, queue, outPoller, protoVars,
                   alerts, ab, budget>>
    /\ UNCHANGED <<rcVars, logVars>>

----------------------------------------------------------------------------
(***************************************************************************)
(* abort_speaking (lines 976-994), run by thread t, and the worker         *)
(* start_listening_after_abort it starts.                                  *)
(***************************************************************************)
\* a packet that was in the playback queue when abort_speaking ran is "old"
MarkOld(q) == [i \in 1..Len(q) |-> "old"]

\* lines 979-984
AbortSpeaking(t) ==
    /\ pc[t] = "abort"
    /\ aborted' = TRUE
    /\ lastSent' = <<"abort", ab[t].reason>>
    /\ queue' = MarkOld(queue)
    /\ pc' = [pc EXCEPT ![t] = "sds_check"]
    /\ target' = [target EXCEPT ![t] = IDLE]
    /\ sdsRet' = [sdsRet EXCEPT ![t] = "abort_after"]
    /\ ab' = [ab EXCEPT ![t].speaking = (device_state = SPEAKING)]
    /\ UNCHANGED <<device_state, keep_listening, schedVars, outEvent, inputActive,
                   outputActive, outPoller, wwPaused, channelOpen, ioQueue,
                   openFuture, flows, dispVars, budget>>
    /\ UNCHANGED <<rcVars, logVars>>

\* line 987
Retriggers(reason, keep) == reason = WAKE_WORD_DETECTED /\ keep

\* lines 987-994: the worker start_listening_after_abort is started iff the
\* reason is the wake word and keep_listening is set; it sleeps, then calls
\* set_device_state(IDLE) (lines 990-991).  Then abort_speaking returns.
AbortAfter(t) ==
    /\ pc[t] = "abort_after"
    /\ IF Retriggers(ab[t].reason, keep_listening)
       THEN /\ pc["w2"] = "idle"
            /\ pc' = [pc EXCEPT ![t] = ab[t].ret, !["w2"] = "sds_check"]
            /\ target' = [target EXCEPT !["w2"] = IDLE]
            /\ sdsRet' = [sdsRet EXCEPT !["w2"] =
                              IF ab[t].speaking THEN "w2_sched" ELSE "w2_sched_o"]
       ELSE /\ Goto(t, ab[t].ret)
            /\ UNCHANGED <<target, sdsRet>>
    /\ ab' = [ab EXCEPT ![t] = NoAbort]
    /\ UNCHANGED <<appVars, schedVars, audioVars, wwPaused, protoVars, dispVars, budget>>
    /\ UNCHANGED <<rcVars, logVars>>

\* line 992: schedule(lambda: self.toggle_chat_state())
StartListeningAfterAbortSchedule ==
    /\ pc["w2"] \in {"w2_sched", "w2_sched_o"}
    /\ TaskRoom \/ Scheduled(main_tasks, "toggle") = main_tasks
    /\ schedule(IF pc["w2"] = "w2_sched" THEN "toggle" ELSE "toggle_o")
    /\ Goto("w2", "idle")
    /\ UNCHANGED <<appVars, tasks, audioVars, wwPaused, protoVars, dispVars,
                   frameVars, budget>>
    /\ UNCHANGED <<rcVars, logVars>>

----------------------------------------------------------------------------
(***************************************************************************)
(* The main loop (lines 225-256) and the audio output cycle.               *)
(***************************************************************************)
\* where the scheduler goes when the task at the head of the snapshot ends
AfterTask == IF Len(tasks) > 1 THEN "run" ELSE "loop"

\* the snapshot of the queue taken newest first
ProcessScheduledTasksNewestFirst ==
    /\ pc["main"] = "loop"
    /\ schedEvent
    /\ schedEvent' = FALSE
    /\ tasks' = [i \in 1..Len(main_tasks) |-> main_tasks[Len(main_tasks) + 1 - i]]
    /\ main_tasks' = <<>>
    /\ Goto("main", IF main_tasks = <<>> THEN "loop" ELSE "run")
    /\ UNCHANGED <<appVars, audioVars, wwPaused, protoVars, dispVars, frameVars, budget>>
    /\ UNCHANGED <<rcVars, logVars>>

\* lines 233-234, 240-241, 248-250: SCHEDULE_EVENT is cleared and the queue
\* is snapshotted and cleared
ProcessScheduledTasks ==
    /\ pc["main"] = "loop"
    /\ schedEvent
    /\ schedEvent' = FALSE
    /\ tasks' = main_tasks
    /\ main_tasks' = <<>>
    /\ Goto("main", IF main_tasks = <<>> THEN "loop" ELSE "run")
    /\ UNCHANGED <<appVars, audioVars, wwPaused, protoVars, dispVars, frameVars, budget>>
    /\ UNCHANGED <<rcVars, logVars>>

\* the task at the head of the snapshot has returned
TaskDone ==
    /\ pc["main"] = "done"
    /\ tasks' = Tail(tasks)
    /\ Goto("main", AfterTask)
    /\ UNCHANGED <<appVars, main_tasks, schedEvent, audioVars, wwPaused, protoVars,
                   dispVars, frameVars, budget>>
    /\ UNCHANGED <<rcVars, logVars>>

\* audio_codec.play_audio (spec.md 4.2): one batch leaves the queue
PlayAudio(q) == SubSeq(q, BatchSize + 1, Len(q))

\* the output cycle that plays whatever the state
HandleOutputAudioWithoutTest ==
    /\ pc["main"] = "loop"
    /\ outEvent
    /\ outEvent' = FALSE
    /\ queue' = PlayAudio(queue)
    /\ UNCHANGED <<appVars, schedVars, inputActive, outputActive, outPoller,
                   wwPaused, protoVars, dispVars, pc, frameVars, budget>>
    /\ UNCHANGED <<rcVars, logVars>>

\* lines 233-234, 238-239, 281-286
HandleOutputAudio ==
    /\ pc["main"] = "loop"
    /\ outEvent
    /\ outEvent' = FALSE
    /\ queue' = IF device_state = SPEAKING THEN PlayAudio(queue) ELSE queue
    /\ UNCHANGED <<appVars, schedVars, inputActive, outputActive, outPoller,
                   wwPaused, protoVars, dispVars, pc, frameVars, budget>>
    /\ UNCHANGED <<rcVars, logVars>>

\* lines 689-695: a poller started by _start_audio_streams signals an output
\* cycle while the output stream is active and the queue is not empty
AudioOutputEventTrigger ==
    /\ outPoller
    /\ IF outputActive
       THEN /\ queue # <<>> /\ ~outEvent
            /\ outEvent' = TRUE
            /\ UNCHANGED outPoller
       ELSE /\ outPoller' = FALSE
            /\ UNCHANGED outEvent
    /\ UNCHANGED <<appVars, schedVars, queue, inputActive, outputActive, wwPaused,
                   protoVars, dispVars, pc, frameVars, budget>>
    /\ UNCHANGED <<rcVars, logVars>>

----------------------------------------------------------------------------
(***************************************************************************)
(* The tasks of the scheduler thread.                                      *)
(***************************************************************************)
Running(k) == pc["main"] = "run" /\ tasks # <<>> /\ Head(tasks) = k

\* _handle_tts_start without the purge of line 405
HandleTtsStartWithoutPurge ==
    /\ Running("tts_start")
    /\ aborted' = FALSE
    /\ IF device_state \in {IDLE, LISTENING}
       THEN CallSds("main", SPEAKING, "done")
       ELSE Goto("main", "done") /\ UNCHANGED <<target, sdsRet>>
    /\ UNCHANGED <<device_state, keep_listening, schedVars, audioVars, wwPaused,
                   protoVars, dispVars, ab, budget>>
    /\ UNCHANGED <<rcVars, logVars>>

\* _handle_tts_start, lines 401-409
HandleTtsStart ==
    /\ Running("tts_start")
    /\ aborted' = FALSE
    /\ queue' = <<>>
    /\ IF device_state \in {IDLE, LISTENING}
       THEN CallSds("main", SPEAKING, "done")
       ELSE Goto("main", "done") /\ UNCHANGED <<target, sdsRet>>
    /\ UNCHANGED <<device_state, keep_listening, schedVars, outEvent, inputActive,
                   outputActive, outPoller, wwPaused, protoVars, dispVars, ab, budget>>
    /\ UNCHANGED <<rcVars, logVars>>

\* _handle_tts_stop, lines 411-430: in SPEAKING the worker
\* delayed_state_change is started
HandleTtsStop ==
    /\ Running("tts_stop")
    /\ IF device_state = SPEAKING
       THEN /\ pc["w1"] = "idle"
            /\ pc' = [pc EXCEPT !["main"] = "done", !["w1"] = "w1_wait"]
       ELSE Goto("main", "done")
    /\ UNCHANGED <<appVars, schedVars, audioVars, wwPaused, protoVars, dispVars,
                   frameVars, budget>>
    /\ UNCHANGED <<rcVars, logVars>>

\* delayed_state_change without the test of keep_listening (line 420)
DelayedStateChangeAlwaysIdle ==
    /\ pc["w1"] = "w1_wait"
    /\ CallSds("w1", IDLE, "idle")
    /\ UNCHANGED <<appVars, schedVars, audioVars, wwPaused, protoVars, dispVars,
                   ab, budget>>
    /\ UNCHANGED <<rcVars, logVars>>

\* lines 417-427: wait_for_audio_complete has returned (the queue is empty
\* or the maximum wait has passed) and keep_listening is read
DelayedStateChange ==
    /\ pc["w1"] = "w1_wait"
    /\ IF keep_listening
       THEN Goto("w1", "w1_send") /\ UNCHANGED <<target, sdsRet>>
       ELSE CallSds("w1", IDLE, "idle")
    /\ UNCHANGED <<appVars, schedVars, audioVars, wwPaused, protoVars, dispVars,
                   ab, budget>>
    /\ UNCHANGED <<rcVars, logVars>>

\* lines 421-425
DelayedStateChangeSend ==
    /\ pc["w1"] = "w1_send"
    /\ lastSent' = <<"start_listening", "AUTO_STOP">>
    /\ CallSds("w1", LISTENING, "idle")
    /\ UNCHANGED <<appVars, schedVars, audioVars, wwPaused, channelOpen, ioQueue,
                   openFuture, flows, dispVars, ab, budget>>
    /\ UNCHANGED <<rcVars, logVars>>

\* _stop_listening_impl without the test of line 969
StopListeningImplWithoutTest ==
    /\ Running("stop_impl")
    /\ lastSent' = <<"stop_listening", "">>
    /\ CallSds("main", IDLE, "done")
    /\ UNCHANGED <<appVars, schedVars, audioVars, wwPaused, channelOpen, ioQueue,
                   openFuture, flows, dispVars, ab, budget>>
    /\ UNCHANGED <<rcVars, logVars>>

\* _stop_listening_impl, lines 967-974
StopListeningImpl ==
    /\ Running("stop_impl")
    /\ IF device_state = LISTENING
       THEN /\ lastSent' = <<"stop_listening", "">>
            /\ CallSds("main", IDLE, "done")
       ELSE /\ Goto("main", "done")
            /\ UNCHANGED <<lastSent, target, sdsRet>>
    /\ UNCHANGED <<appVars, schedVars, audioVars, wwPaused, channelOpen, ioQueue,
                   openFuture, flows, dispVars, ab, budget>>
    /\ UNCHANGED <<rcVars, logVars>>

\* _start_audio_streams, lines 649-671
StartAudioStreams ==
    /\ Running("start_streams")
    /\ inputActive' = TRUE
    /\ outputActive' = TRUE
    /\ outPoller' = TRUE
    /\ Goto("main", "done")
    /\ UNCHANGED <<appVars, schedVars, outEvent, queue, wwPaused, protoVars,
                   dispVars, frameVars, budget>>
    /\ UNCHANGED <<rcVars, logVars>>

\* _stop_audio_streams, lines 712-723
StopAudioStreams ==
    /\ Running("stop_streams")
    /\ inputActive' = FALSE
    /\ outputActive' = FALSE
    /\ Goto("main", "done")
    /\ UNCHANGED <<appVars, schedVars, outEvent, queue, outPoller, wwPaused,
                   protoVars, dispVars, frameVars, budget>>
    /\ UNCHANGED <<rcVars, logVars>>

\* toggle_chat_state (lines 904-909) run as a task: the lambda of line 992
ToggleChatStateTask ==
    /\ pc["main"] = "run" /\ tasks # <<>> /\ IsAbortKind(Head(tasks))
    /\ wwPaused' = TRUE
    /\ TaskRoom
    /\ schedule(IF Head(tasks) = "toggle" THEN "toggle_impl_r" ELSE "toggle_impl_o")
    /\ Goto("main", "done")
    /\ UNCHANGED <<appVars, tasks, audioVars, protoVars, dispVars, frameVars, budget>>
    /\ UNCHANGED <<rcVars, logVars>>

\* the task is _toggle_chat_state_impl (scheduled by the display or by the
\* lambda of line 992)
IsToggleImpl(k) == k \in {"toggle_impl", "toggle_impl_r", "toggle_impl_o"}

\* _start_listening_impl, lines 848-861 and 890-892
StartListeningImpl ==
    /\ Running("start_impl")
    /\ keep_listening' = FALSE
    /\ wwPaused' = TRUE
    /\ CASE device_state = IDLE ->
              CallSds("main", CONNECTING, "open") /\ UNCHANGED <<ab>>
         [] device_state = SPEAKING /\ ~aborted ->
              CallAbort("main", WAKE_WORD_DETECTED, "done") /\ UNCHANGED <<target, sdsRet>>
         [] OTHER ->
              Goto("main", "done") /\ UNCHANGED frameVars
    /\ UNCHANGED <<device_state, aborted, schedVars, audioVars, protoVars, dispVars, budget>>
    /\ UNCHANGED <<rcVars, logVars>>

\* _toggle_chat_state_impl, lines 911-920 and 952-961
ToggleChatStateImpl ==
    /\ pc["main"] = "run" /\ tasks # <<>> /\ IsToggleImpl(Head(tasks))
    /\ CASE device_state = IDLE ->
              /\ CallSds("main", CONNECTING, "open")
              /\ UNCHANGED <<ab, ioQueue>>
         [] device_state = SPEAKING ->
              /\ CallAbort("main", NONE, "done")
              /\ UNCHANGED <<target, sdsRet, ioQueue>>
         [] device_state = LISTENING ->
              /\ ioQueue' = Append(ioQueue, "close")
              /\ Goto("main", "done")
              /\ UNCHANGED frameVars
         [] OTHER ->
              /\ Goto("main", "done")
              /\ UNCHANGED <<frameVars, ioQueue>>
    /\ UNCHANGED <<appVars, schedVars, audioVars, wwPaused, channelOpen, openFuture,
                   flows, lastSent, dispVars, budget>>
    /\ UNCHANGED <<rcVars, logVars>>

\* lines 864-870 and 923-929: open_audio_channel is handed to the loop
\* unless the channel is open already
OpenAudioChannelRequest ==
    /\ pc["main"] = "open"
    /\ IF channelOpen
       THEN /\ Goto("main", "send")
            /\ UNCHANGED <<ioQueue, openFuture>>
       ELSE /\ ioQueue' = Append(ioQueue, "open")
            /\ openFuture' = "pending"
            /\ Goto("main", "wait")
    /\ UNCHANGED <<appVars, schedVars, audioVars, wwPaused, channelOpen, flows,
                   lastSent, dispVars, frameVars, budget>>
    /\ UNCHANGED <<rcVars, logVars>>

\* the wait for open_audio_channel without the alert of lines 875 and 881
AwaitOpenAudioChannelWithoutAlert ==
    /\ pc["main"] = "wait"
    /\ openFuture \in {"ok", "fail", "pending"}
    /\ openFuture' = "none"
    /\ IF openFuture = "ok"
       THEN Goto("main", "send") /\ UNCHANGED <<target, sdsRet>>
       ELSE CallSds("main", IDLE, "done")
    /\ UNCHANGED <<appVars, schedVars, audioVars, wwPaused, channelOpen, ioQueue,
                   flows, lastSent, dispVars, ab, budget>>
    /\ UNCHANGED <<rcVars, logVars>>

\* lines 872-883 and 931-942: future.result(timeout=10.0) returns the
\* result, or raises when the 10 s have passed with the result pending; on
\* False or an exception alert is called, then set_device_state(IDLE)
AwaitOpenAudioChannel ==
    /\ pc["main"] = "wait"
    /\ openFuture \in {"ok", "fail", "pending"}
    /\ openFuture' = "none"
    /\ IF openFuture = "ok"
       THEN Goto("main", "send") /\ UNCHANGED <<target, sdsRet, alerts>>
       ELSE alerts' = alerts + 1 /\ CallSds("main", IDLE, "done")
    /\ UNCHANGED <<appVars, schedVars, audioVars, wwPaused, channelOpen, ioQueue,
                   flows, lastSent, status, notified, ab, budget>>
    /\ UNCHANGED <<rcVars, logVars>>

\* the sending of start-listening that leaves keep_listening as it is
SendStartListeningWithoutKeep ==
    /\ pc["main"] = "send"
    /\ lastSent' = IF IsToggleImpl(Head(tasks))
                   THEN <<"start_listening", "AUTO_STOP">>
                   ELSE <<"start_listening", "MANUAL">>
    /\ CallSds("main", LISTENING, "done")
    /\ UNCHANGED <<appVars, schedVars, audioVars, wwPaused, channelOpen, ioQueue,
                   openFuture, flows, dispVars, ab, budget>>
    /\ UNCHANGED <<rcVars, logVars>>

\* lines 885-889 and 944-950
SendStartListening ==
    /\ pc["main"] = "send"
    /\ IF IsToggleImpl(Head(tasks))
       THEN /\ keep_listening' = TRUE
            /\ lastSent' = <<"start_listening", "AUTO_STOP">>
       ELSE /\ lastSent' = <<"start_listening", "MANUAL">>
            /\ UNCHANGED keep_listening
    /\ CallSds("main", LISTENING, "done")
    /\ UNCHANGED <<device_state, aborted, schedVars, audioVars, wwPaused,
                   channelOpen, ioQueue, openFuture, flows, dispVars, ab, budget>>
    /\ UNCHANGED <<rcVars, logVars>>

\* _handle_wake_word_detected, lines 1112-1120
HandleWakeWordDetected ==
    /\ Running("wake")
    /\ IF device_state = IDLE
       THEN /\ wwPaused' = TRUE
            /\ CallSds("main", CONNECTING, "wk_submit")
       ELSE /\ Goto("main", "done")
            /\ UNCHANGED <<wwPaused, target, sdsRet>>
    /\ UNCHANGED <<appVars, schedVars, audioVars, protoVars, dispVars, ab, budget>>
    /\ UNCHANGED <<rcVars, logVars>>

\* lines 1123-1126: _connect_and_start_listening is handed to the loop
HandleWakeWordDetectedSubmit ==
    /\ pc["main"] = "wk_submit"
    /\ ioQueue' = Append(ioQueue, "flow")
    /\ Goto("main", "done")
    /\ UNCHANGED <<appVars, schedVars, audioVars, wwPaused, channelOpen, openFuture,
                   flows, lastSent, dispVars, frameVars, budget>>
    /\ UNCHANGED <<rcVars, logVars>>

\* _handle_vision_keywords with a vision keyword in the text (lines 487-490)
\* and _process_vision_analysis, lines 496-506
ProcessVisionAnalysis ==
    /\ Running("vision")
    /\ lastSent' = IF device_state = LISTENING THEN <<"stop_listening", "">> ELSE lastSent
    /\ IF device_state = SPEAKING
       THEN CallAbort("main", NONE, "v_cam") /\ UNCHANGED <<target, sdsRet>>
       ELSE Goto("main", "v_cam") /\ UNCHANGED frameVars
    /\ UNCHANGED <<appVars, schedVars, audioVars, wwPaused, channelOpen, ioQueue,
                   openFuture, flows, dispVars, budget>>
    /\ UNCHANGED <<rcVars, logVars>>

\* lines 508-574: the camera, the analysis or the synthesis fails or the
\* channel is not open and the function returns; or one of them raises
\* (lines 633-636); or the device is set to SPEAKING
ProcessVisionAnalysisCapture ==
    /\ pc["main"] = "v_cam"
    /\ \/ Goto("main", "done") /\ UNCHANGED <<target, sdsRet>>
       \/ CallSds("main", IDLE, "done")
       \/ channelOpen /\ CallSds("main", SPEAKING, "v_send")
    /\ UNCHANGED <<appVars, schedVars, audioVars, wwPaused, protoVars, dispVars,
                   ab, budget>>
    /\ UNCHANGED <<rcVars, logVars>>

\* lines 576-631: start-listening, the audio frames and stop-listening are
\* sent, then the device is set to IDLE
ProcessVisionAnalysisSend ==
    /\ pc["main"] = "v_send"
    /\ lastSent' = <<"stop_listening", "">>
    /\ CallSds("main", IDLE, "done")
    /\ UNCHANGED <<appVars, schedVars, audioVars, wwPaused, channelOpen, ioQueue,
                   openFuture, flows, dispVars, ab, budget>>
    /\ UNCHANGED <<rcVars, logVars>>

----------------------------------------------------------------------------
(***************************************************************************)
(* The asyncio loop thread: the coroutines handed to it and the callbacks  *)
(* of the protocol.  One coroutine or callback runs at a time; a coroutine *)
(* gives way to the others where it awaits.                                *)
(***************************************************************************)
IoIdle == pc["io"] = "idle"

\* protocol.open_audio_channel() (spec.md 4.3): success without renegotiating
\* when the channel is open; otherwise the negotiation succeeds, and
\* _on_audio_channel_opened (lines 644-647) schedules _start_audio_streams,
\* or it fails
OpenAudioChannel ==
    /\ IoIdle
    /\ ioQueue # <<>> /\ Head(ioQueue) = "open"
    /\ ioQueue' = Tail(ioQueue)
    /\ \E ok \in BOOLEAN :
          /\ channelOpen => ok
          /\ channelOpen' = ok
          /\ openFuture' = IF openFuture = "pending"
                           THEN (IF ok THEN "ok" ELSE "fail")
                           ELSE openFuture
          /\ IF ok /\ ~channelOpen
             THEN TaskRoom /\ schedule("start_streams")
             ELSE UNCHANGED <<main_tasks, schedEvent>>
    /\ UNCHANGED <<appVars, tasks, audioVars, wwPaused, flows, lastSent, dispVars,
                   pc, frameVars, budget>>
    /\ UNCHANGED <<rcVars, logVars>>

\* protocol.close_audio_channel(): an open channel is closed and
\* _on_audio_channel_closed is called (lines 697-700)
CloseAudioChannel ==
    /\ IoIdle
    /\ ioQueue # <<>> /\ Head(ioQueue) = "close"
    /\ ioQueue' = Tail(ioQueue)
    /\ channelOpen' = FALSE
    /\ IF channelOpen
       THEN CallSds("io", IDLE, "cc_after")
       ELSE UNCHANGED <<pc, target, sdsRet>>
    /\ UNCHANGED <<appVars, schedVars, audioVars, wwPaused, openFuture, flows,
                   lastSent, dispVars, ab, budget>>
    /\ UNCHANGED <<rcVars, logVars>>

\* the server or the transport closes the channel: _on_audio_channel_closed
ChannelClosedByPeer ==
    /\ IoIdle /\ budget > 0 /\ channelOpen
    /\ budget' = budget - 1
    /\ channelOpen' = FALSE
    /\ CallSds("io", IDLE, "cc_after")
    /\ UNCHANGED <<appVars, schedVars, audioVars, wwPaused, ioQueue, openFuture,
                   flows, lastSent, dispVars, ab>>
    /\ UNCHANGED <<rcVars, logVars>>

\* _on_audio_channel_closed, lines 701-710
OnAudioChannelClosed ==
    /\ pc["io"] = "cc_after"
    /\ keep_listening' = FALSE
    /\ wwPaused' = FALSE
    /\ TaskRoom
    /\ schedule("stop_streams")
    /\ Goto("io", "idle")
    /\ UNCHANGED <<device_state, aborted, tasks, audioVars, protoVars, dispVars,
                   frameVars, budget>>
    /\ UNCHANGED <<rcVars, logVars>>

\* _connect_and_start_listening starts and awaits protocol.connect()
ConnectAndStartListening ==
    /\ IoIdle
    /\ ioQueue # <<>> /\ Head(ioQueue) = "flow"
    /\ ioQueue' = Tail(ioQueue)
    /\ flows' = [flows EXCEPT !.connecting = @ + 1]
    /\ UNCHANGED <<appVars, schedVars, audioVars, wwPaused, channelOpen, openFuture,
                   lastSent, dispVars, pc, frameVars, budget>>
    /\ UNCHANGED <<rcVars, logVars>>

\* connect() returns; its failure is passed over in silence
ConnectReturnsWithoutAlert ==
    /\ IoIdle
    /\ flows.connecting > 0
    /\ \/ /\ flows' = [flows EXCEPT !.connecting = @ - 1, !.opening = @ + 1]
          /\ UNCHANGED <<pc, target, sdsRet, alerts>>
       \/ /\ flows' = [flows EXCEPT !.connecting = @ - 1]
          /\ UNCHANGED alerts
          /\ CallSds("io", IDLE, "fl_resume")
    /\ UNCHANGED <<appVars, schedVars, audioVars, wwPaused, channelOpen, ioQueue,
                   openFuture, lastSent, status, notified, ab, budget>>
    /\ UNCHANGED <<rcVars, logVars>>

\* lines 1131-1138: connect() returns; on failure alert is called, then
\* set_device_state(IDLE)
ConnectReturns ==
    /\ IoIdle
    /\ flows.connecting > 0
    /\ \/ /\ flows' = [flows EXCEPT !.connecting = @ - 1, !.opening = @ + 1]
          /\ UNCHANGED <<pc, target, sdsRet, alerts>>
       \/ /\ flows' = [flows EXCEPT !.connecting = @ - 1]
          /\ alerts' = alerts + 1
          /\ CallSds("io", IDLE, "fl_resume")
    /\ UNCHANGED <<appVars, schedVars, audioVars, wwPaused, channelOpen, ioQueue,
                   openFuture, lastSent, status, notified, ab, budget>>
    /\ UNCHANGED <<rcVars, logVars>>

\* lines 1141-1150: open_audio_channel() returns; on success the
\* wake-word-detected message is sent, on failure set_device_state(IDLE) is
\* called
OpenReturns ==
    /\ IoIdle
    /\ flows.opening > 0
    /\ flows' = [flows EXCEPT !.opening = @ - 1]
    /\ \E ok \in BOOLEAN :
          /\ channelOpen => ok
          /\ channelOpen' = ok
          /\ IF ok /\ ~channelOpen
             THEN TaskRoom /\ schedule("start_streams")
             ELSE UNCHANGED <<main_tasks, schedEvent>>
          /\ IF ok
             THEN /\ lastSent' = <<"wake_word_detected", "">>
                  /\ Goto("io", "fl_start")
                  /\ UNCHANGED <<target, sdsRet>>
             ELSE /\ CallSds("io", IDLE, "fl_alert")
                  /\ UNCHANGED lastSent
    /\ UNCHANGED <<appVars, tasks, audioVars, wwPaused, ioQueue, openFuture,
                   dispVars, ab, budget>>
    /\ UNCHANGED <<rcVars, logVars>>

\* lines 1151-1154: keep_listening is set, start-listening(AUTO_STOP) is
\* sent and set_device_state(LISTENING) is called
ConnectAndStartListeningSend ==
    /\ pc["io"] = "fl_start"
    /\ keep_listening' = TRUE
    /\ lastSent' = <<"start_listening", "AUTO_STOP">>
    /\ CallSds("io", LISTENING, "idle")
    /\ UNCHANGED <<device_state, aborted, schedVars, audioVars, wwPaused,
                   channelOpen, ioQueue, openFuture, flows, dispVars, ab, budget>>
    /\ UNCHANGED <<rcVars, logVars>>

\* lines 1136-1138: wake_word_detector.resume()
ConnectFailedResume ==
    /\ pc["io"] = "fl_resume"
    /\ wwPaused' = FALSE
    /\ Goto("io", "idle")
    /\ UNCHANGED <<appVars, schedVars, audioVars, protoVars, dispVars, frameVars, budget>>
    /\ UNCHANGED <<rcVars, logVars>>

\* lines 1144-1148: alert, then wake_word_detector.resume()
OpenFailedAlert ==
    /\ pc["io"] = "fl_alert"
    /\ alerts' = alerts + 1
    /\ wwPaused' = FALSE
    /\ Goto("io", "idle")
    /\ UNCHANGED <<appVars, schedVars, audioVars, protoVars, status, notified,
                   frameVars, budget>>
    /\ UNCHANGED <<rcVars, logVars>>

\* the protocol has a connection, or is making one
ConnectionActivity ==
    \/ channelOpen
    \/ ioQueue # <<>>
    \/ flows.connecting + flows.opening > 0

\* _on_network_error, lines 288-291
OnNetworkError ==
    /\ IoIdle /\ budget > 0 /\ ConnectionActivity
    /\ budget' = budget - 1
    /\ keep_listening' = FALSE
    /\ CallSds("io", IDLE, "ne_resume")
    /\ UNCHANGED <<device_state, aborted, schedVars, audioVars, wwPaused, protoVars,
                   dispVars, ab>>
    /\ UNCHANGED <<rcVars, logVars>>

\* lines 292-295
OnNetworkErrorResume ==
    /\ pc["io"] = "ne_resume"
    /\ wwPaused' = FALSE
    /\ IF device_state # CONNECTING
       THEN CallSds("io", IDLE, "ne_close")
       ELSE Goto("io", "idle") /\ UNCHANGED <<target, sdsRet>>
    /\ UNCHANGED <<appVars, schedVars, audioVars, protoVars, dispVars, ab, budget>>
    /\ UNCHANGED <<rcVars, logVars>>

\* lines 298-302: close_audio_channel is handed to the loop
OnNetworkErrorClose ==
    /\ pc["io"] = "ne_close"
    /\ ioQueue' = Append(ioQueue, "close")
    /\ Goto("io", "idle")
    /\ UNCHANGED <<appVars, schedVars, audioVars, wwPaused, channelOpen, openFuture,
                   flows, lastSent, dispVars, frameVars, budget>>
    /\ UNCHANGED <<rcVars, logVars>>

\* _on_incoming_audio, lines 353-357, for a packet p in SPEAKING, with at
\* most n packets queued
OnIncomingAudioPacket(p, n) ==
    /\ IoIdle /\ budget > 0 /\ channelOpen
    /\ device_state = SPEAKING
    /\ Len(queue) < n
    /\ budget' = budget - 1
    /\ queue' = Append(queue, p)
    /\ outEvent' = TRUE
    /\ UNCHANGED <<appVars, schedVars, inputActive, outputActive, outPoller,
                   wwPaused, protoVars, dispVars, pc, frameVars>>
    /\ UNCHANGED <<rcVars, logVars>>

\* A packet that arrives in another state changes nothing and is left out.
OnIncomingAudio == OnIncomingAudioPacket("pkt", MaxQueue)

\* _on_incoming_json and _handle_tts_message, lines 359-390, and
\* _handle_stt_message with a vision keyword, lines 432-462: the message
\* becomes a task
JsonTasks == {"tts_start", "tts_stop", "vision"}

Pending(k) ==
    \/ \E i \in 1..Len(main_tasks) : main_tasks[i] = k
    \/ \E i \in 1..Len(tasks) : tasks[i] = k

OnIncomingJsonOf(K) ==
    /\ IoIdle /\ budget > 0 /\ channelOpen /\ TaskRoom
    /\ \E k \in K :
          /\ k = "tts_stop" => pc["w1"] = "idle" /\ ~Pending("tts_stop")
          /\ schedule(k)
    /\ budget' = budget - 1
    /\ UNCHANGED <<appVars, tasks, audioVars, wwPaused, protoVars, dispVars, pc,
                   frameVars>>
    /\ UNCHANGED <<rcVars, logVars>>

OnIncomingJson == OnIncomingJsonOf(JsonTasks)

----------------------------------------------------------------------------
(***************************************************************************)
(* The display thread and the wake-word detector.                          *)
(***************************************************************************)
\* start_listening (lines 844-846) and stop_listening (lines 963-965)
UiTasks == {"start_impl", "stop_impl"}

StartStopListening ==
    /\ pc["ui"] = "idle" /\ budget > 0 /\ TaskRoom
    /\ \E k \in UiTasks : schedule(k)
    /\ budget' = budget - 1
    /\ UNCHANGED <<appVars, tasks, audioVars, wwPaused, protoVars, dispVars, pc,
                   frameVars>>
    /\ UNCHANGED <<rcVars, logVars>>

\* toggle_chat_state called by the display, lines 904-909
ToggleChatState ==
    /\ pc["ui"] = "idle" /\ budget > 0 /\ TaskRoom
    /\ wwPaused' = TRUE
    /\ schedule("toggle_impl")
    /\ budget' = budget - 1
    /\ UNCHANGED <<appVars, tasks, audioVars, protoVars, dispVars, pc, frameVars>>
    /\ UNCHANGED <<rcVars, logVars>>

\* the abort callback of the display, lines 199 and 206:
\* abort_speaking(WAKE_WORD_DETECTED) on the display thread
AbortCallback ==
    /\ pc["ui"] = "idle" /\ budget > 0
    /\ budget' = budget - 1
    /\ CallAbort("ui", WAKE_WORD_DETECTED, "idle")
    /\ UNCHANGED <<appVars, schedVars, audioVars, wwPaused, protoVars, dispVars,
                   target, sdsRet>>
    /\ UNCHANGED <<rcVars, logVars>>

\* _on_wake_word_detected, lines 1107-1110: the detector delivers a
\* detection only while it is not paused (spec.md 4.6)
OnWakeWordDetected ==
    /\ ~wwPaused /\ budget > 0 /\ TaskRoom
    /\ schedule("wake")
    /\ budget' = budget - 1
    /\ UNCHANGED <<appVars, tasks, audioVars, wwPaused, protoVars, dispVars, pc,
                   frameVars>>
    /\ UNCHANGED <<rcVars, logVars>>

----------------------------------------------------------------------------
Next ==
    \/ \E t \in Threads : SdsCheck(t)
    \/ \E t \in Threads : SdsReturn(t)
    \/ \E t \in Threads : SdsWait(t)
    \/ \E t \in Threads : SdsAssign(t)
    \/ \E t \in Threads : SdsEffects(t)
    \/ \E t \in Threads : AbortSpeaking(t)
    \/ \E t \in Threads : AbortAfter(t)
    \/ StartListeningAfterAbortSchedule
    \/ ProcessScheduledTasks
    \/ TaskDone
    \/ HandleOutputAudio
    \/ AudioOutputEventTrigger
    \/ HandleTtsStart
    \/ HandleTtsStop
    \/ DelayedStateChange
    \/ DelayedStateChangeSend
    \/ StopListeningImpl
    \/ StartAudioStreams
    \/ StopAudioStreams
    \/ ToggleChatStateTask
    \/ StartListeningImpl
    \/ ToggleChatStateImpl
    \/ OpenAudioChannelRequest
    \/ AwaitOpenAudioChannel
    \/ SendStartListening
    \/ HandleWakeWordDetected
    \/ HandleWakeWordDetectedSubmit
    \/ ProcessVisionAnalysis
    \/ ProcessVisionAnalysisCapture
    \/ ProcessVisionAnalysisSend
    \/ OpenAudioChannel
    \/ CloseAudioChannel
    \/ ChannelClosedByPeer
    \/ OnAudioChannelClosed
    \/ ConnectAndStartListening
    \/ ConnectReturns
    \/ OpenReturns
    \/ ConnectAndStartListeningSend
    \/ ConnectFailedResume
    \/ OpenFailedAlert
    \/ OnNetworkError
    \/ OnNetworkErrorResume
    \/ OnNetworkErrorClose
    \/ OnIncomingAudio
    \/ OnIncomingJson
    \/ StartStopListening
    \/ ToggleChatState
    \/ AbortCallback
    \/ OnWakeWordDetected

Spec == Init /\ [][Next]_vars

\* the behaviours of at most MaxEventsShort external events
SpecShort == InitShort /\ [][Next]_vars

----------------------------------------------------------------------------
(***************************************************************************)
(* The reconnection, lines 304-351.  No code of the program calls          *)
(* _attempt_reconnect, so its steps are not steps of Next; SpecReconnect   *)
(* starts at a call of it by the loop thread, where the handler            *)
(* _on_network_error runs.  A coroutine that awaits leaves the loop thread *)
(* to the other coroutines; reconnect holds its position meanwhile.        *)
(***************************************************************************)
\* line 334
max_retries == 3

\* lines 306-308
AttemptReconnect ==
    /\ pc["io"] = "ar_call"
    /\ IF device_state # CONNECTING
       THEN CallSds("io", CONNECTING, "ar_close") /\ UNCHANGED reconnect
       ELSE /\ Goto("io", "idle")
            /\ reconnect' = "skipped"
            /\ UNCHANGED <<target, sdsRet>>
    /\ UNCHANGED <<appVars, schedVars, audioVars, wwPaused, protoVars, dispVars,
                   retry_count, connectCalls, logVars, ab, budget>>

\* lines 311-322: close_audio_channel is handed to the loop and the thread
\* delayed_reconnect is started
AttemptReconnectClose ==
    /\ pc["io"] = "ar_close"
    /\ ioQueue' = Append(ioQueue, "close")
    /\ reconnect' = "delay"
    /\ Goto("io", "idle")
    /\ UNCHANGED <<appVars, schedVars, audioVars, wwPaused, channelOpen, openFuture,
                   flows, lastSent, dispVars, retry_count, connectCalls, logVars,
                   frameVars, budget>>

\* lines 319-321: delayed_reconnect has slept and hands _reconnect to the loop
DelayedReconnect ==
    /\ reconnect = "delay"
    /\ ioQueue' = Append(ioQueue, "reconnect")
    /\ reconnect' = "queued"
    /\ UNCHANGED <<appVars, schedVars, audioVars, wwPaused, channelOpen, openFuture,
                   flows, lastSent, dispVars, retry_count, connectCalls, logVars, pc,
                   frameVars, budget>>

\* the while loop with the scheduling of the alert (line 349) left out
ReconnectLoopWithoutAlert(rc) ==
    IF rc < max_retries
    THEN /\ connectCalls' = connectCalls + 1
         /\ reconnect' = "connecting"
         /\ UNCHANGED <<audioSent, dropped, main_tasks, schedEvent, pc, target, sdsRet>>
    ELSE /\ reconnect' = "giving_up"
         /\ CallSds("io", IDLE, "rc_false")
         /\ UNCHANGED <<main_tasks, schedEvent, connectCalls>>

\* lines 336-338 and 347-350: the test of the while loop with retry_count
\* rc: connect() is called and awaited, or the alert is scheduled and
\* set_device_state(IDLE) is called
ReconnectLoop(rc) ==
    IF rc < max_retries
    THEN /\ connectCalls' = connectCalls + 1
         /\ reconnect' = "connecting"
         /\ UNCHANGED <<audioSent, dropped, main_tasks, schedEvent, pc, target, sdsRet>>
    ELSE /\ schedule("alert")
         /\ reconnect' = "giving_up"
         /\ CallSds("io", IDLE, "rc_false")
         /\ UNCHANGED connectCalls

\* _reconnect starts, lines 324-338: the callbacks are registered again,
\* retry_count = 0
Reconnect ==
    /\ IoIdle
    /\ ioQueue # <<>> /\ Head(ioQueue) = "reconnect"
    /\ ioQueue' = Tail(ioQueue)
    /\ retry_count' = 0
    /\ ReconnectLoop(0)
    /\ UNCHANGED <<appVars, tasks, audioVars, wwPaused, channelOpen, openFuture,
                   flows, lastSent, dispVars, logVars, ab, budget>>

\* connect() returns without the count of the failure (line 343)
ReconnectConnectReturnsWithoutCount ==
    /\ IoIdle
    /\ reconnect = "connecting"
    /\ \/ /\ reconnect' = "connected"
          /\ CallSds("io", IDLE, "rc_true")
       \/ /\ reconnect' = "sleeping"
          /\ UNCHANGED <<pc, target, sdsRet>>
    /\ UNCHANGED <<appVars, schedVars, audioVars, wwPaused, protoVars, dispVars,
                   retry_count, connectCalls, logVars, ab, budget>>

\* lines 338-344: connect() returns; on success set_device_state(IDLE) is
\* called, on failure retry_count is raised and the coroutine sleeps
ReconnectConnectReturns ==
    /\ IoIdle
    /\ reconnect = "connecting"
    /\ \/ /\ reconnect' = "connected"
          /\ CallSds("io", IDLE, "rc_true")
          /\ UNCHANGED retry_count
       \/ /\ reconnect' = "sleeping"
          /\ retry_count' = retry_count + 1
          /\ UNCHANGED <<pc, target, sdsRet>>
    /\ UNCHANGED <<appVars, schedVars, audioVars, wwPaused, protoVars, dispVars,
                   connectCalls, logVars, ab, budget>>

\* line 344: the sleep of 2 s is over, the while loop goes on
ReconnectSleepReturns ==
    /\ IoIdle
    /\ reconnect = "sleeping"
    /\ ReconnectLoop(retry_count)
    /\ UNCHANGED <<appVars, tasks, audioVars, wwPaused, protoVars, dispVars,
                   retry_count, logVars, ab, budget>>

\* lines 341 and 351: _reconnect returns True or False
ReconnectReturn ==
    /\ pc["io"] \in {"rc_true", "rc_false"}
    /\ reconnect' = IF pc["io"] = "rc_true" THEN "succeeded" ELSE "failed"
    /\ Goto("io", "idle")
    /\ UNCHANGED <<appVars, schedVars, audioVars, wwPaused, protoVars, dispVars,
                   retry_count, connectCalls, logVars, frameVars, budget>>

\* the task of line 349: alert, lines 996-1001
Alert ==
    /\ Running("alert")
    /\ alerts' = alerts + 1
    /\ Goto("main", "done")
    /\ UNCHANGED <<appVars, schedVars, audioVars, wwPaused, protoVars, status,
                   notified, rcVars, logVars, frameVars, budget>>

\* the application at a call of _attempt_reconnect: any device state, the
\* channel open or not, keep_listening set or not
InitReconnect ==
    /\ device_state \in DeviceState
    /\ keep_listening \in BOOLEAN
    /\ channelOpen \in BOOLEAN
    /\ aborted = FALSE
    /\ main_tasks = <<>>
    /\ tasks = <<>>
    /\ schedEvent = FALSE
    /\ outEvent = FALSE
    /\ queue = <<>>
    /\ inputActive = (device_state = LISTENING)
    /\ outputActive = (device_state = SPEAKING)
    /\ outPoller = channelOpen
    /\ wwPaused = (device_state # IDLE)
    /\ ioQueue = <<>>
    /\ openFuture = "none"
    /\ flows = [connecting |-> 0, opening |-> 0]
    /\ lastSent = <<"none", "">>
    /\ status = device_state
    /\ notified = device_state
    /\ alerts = 0
    /\ reconnect = "none"
    /\ retry_count = 0
    /\ connectCalls = 0
    /\ scheduled = <<>>
    /\ executed = <<>>
    /\ errors = 0
    /\ mutex = "free"
    /\ on_state_changed_callbacks = <<>>
    /\ invoked = [t \in Threads |-> <<>>]
    /\ json_data = NoMessage
    /\ audioSent = {}
    /\ dropped = 0
    /\ pc = [t \in Threads |-> CASE t = "main" -> "loop"
                                  [] t = "io" -> "ar_call"
                                  [] OTHER -> "idle"]
    /\ target = [t \in Threads |-> "none"]
    /\ sdsRet = [t \in Threads |-> "none"]
    /\ ab = [t \in Threads |-> NoAbort]
    /\ budget = 0

NextReconnect ==
    \/ AttemptReconnect
    \/ AttemptReconnectClose
    \/ DelayedReconnect
    \/ Reconnect
    \/ ReconnectConnectReturns
    \/ ReconnectSleepReturns
    \/ ReconnectReturn
    \/ Alert
    \/ \E t \in Threads : SdsCheck(t)
    \/ \E t \in Threads : SdsReturn(t)
    \/ \E t \in Threads : SdsWait(t)
    \/ \E t \in Threads : SdsAssign(t)
    \/ \E t \in Threads : SdsEffects(t)
    \/ CloseAudioChannel
    \/ OnAudioChannelClosed
    \/ ProcessScheduledTasks
    \/ TaskDone
    \/ StopAudioStreams

SpecReconnect == InitReconnect /\ [][NextReconnect]_vars

----------------------------------------------------------------------------
(***************************************************************************)
(* The scheduler step by step, lines 225-267: schedule appends under the   *)
(* mutex and sets SCHEDULE_EVENT after it; the main loop tests the event,  *)
(* clears it, and then takes the snapshot under the mutex.  Here a task is *)
(* the number of the call of schedule that gave it, and scheduled holds    *)
(* the kind given by each call.  The loop thread, the display thread and   *)
(* a task on the scheduler thread itself (toggle_chat_state, line 909)     *)
(* schedule other tasks; the worker start_listening_after_abort schedules  *)
(* the abort-of-speech task of line 992.                                   *)
(***************************************************************************)
MaxSched == 3

Producers == {"io", "ui", "w2"}

KindOf(t) == IF t = "w2" THEN "abort" ELSE "task"

\* lines 262-265: an abort-of-speech task is in the queue
AbortTaskQueued == \E i \in 1..Len(main_tasks) : scheduled[main_tasks[i]] = "abort"

\* schedule, line 260: thread t takes the mutex
ScheduleLock(t) ==
    /\ Len(scheduled) < MaxSched
    /\ \/ t \in Producers /\ pc[t] = "idle"
       \/ t = "main" /\ pc[t] = "run"
    /\ mutex = "free"
    /\ mutex' = t
    /\ Goto(t, "sch_lock")
    /\ UNCHANGED <<audioSent, dropped, appVars, schedVars, audioVars, wwPaused, protoVars, dispVars,
                   rcVars, lstVars,
                   json_data, scheduled, executed, errors, frameVars, budget>>

\* schedule that appends whatever the queue holds
ScheduleAppendWithoutTest(t) ==
    /\ pc[t] = "sch_lock"
    /\ scheduled' = Append(scheduled, KindOf(t))
    /\ mutex' = "free"
    /\ main_tasks' = Append(main_tasks, Len(scheduled) + 1)
    /\ Goto(t, "sch_set")
    /\ UNCHANGED <<audioSent, dropped, appVars, tasks, schedEvent, audioVars, wwPaused, protoVars,
                   dispVars, rcVars, lstVars,
                   json_data, executed, errors, frameVars, budget>>

\* schedule, lines 260-266, called by thread t: what it does under the mutex,
\* which it gives back when it leaves the with block
ScheduleAppend(t) ==
    /\ pc[t] = "sch_lock"
    /\ scheduled' = Append(scheduled, KindOf(t))
    /\ mutex' = "free"
    /\ IF KindOf(t) = "abort" /\ AbortTaskQueued
       THEN /\ Goto(t, IF t = "main" THEN "run" ELSE "idle")
            /\ UNCHANGED main_tasks
       ELSE /\ main_tasks' = Append(main_tasks, Len(scheduled) + 1)
            /\ Goto(t, "sch_set")
    /\ UNCHANGED <<audioSent, dropped, appVars, tasks, schedEvent, audioVars, wwPaused, protoVars,
                   dispVars, rcVars, lstVars,
                   json_data, executed, errors, frameVars, budget>>

\* line 267
ScheduleSet(t) ==
    /\ pc[t] = "sch_set"
    /\ schedEvent' = TRUE
    /\ Goto(t, IF t = "main" THEN "run" ELSE "idle")
    /\ UNCHANGED <<appVars, main_tasks, tasks, audioVars, wwPaused, protoVars,
                   dispVars, rcVars, logVars, frameVars, budget>>

\* line 233: event.is_set() is true
MainLoopTest ==
    /\ pc["main"] = "loop"
    /\ schedEvent
    /\ Goto("main", "clear")
    /\ UNCHANGED <<appVars, schedVars, audioVars, wwPaused, protoVars, dispVars,
                   rcVars, logVars, frameVars, budget>>

\* line 234
MainLoopClear ==
    /\ pc["main"] = "clear"
    /\ schedEvent' = FALSE
    /\ Goto("main", "drain")
    /\ UNCHANGED <<appVars, main_tasks, tasks, audioVars, wwPaused, protoVars,
                   dispVars, rcVars, logVars, frameVars, budget>>

\* line 248: _process_scheduled_tasks takes the mutex
DrainLock ==
    /\ pc["main"] = "drain"
    /\ mutex = "free"
    /\ mutex' = "main"
    /\ Goto("main", "snap")
    /\ UNCHANGED <<audioSent, dropped, appVars, schedVars, audioVars, wwPaused, protoVars, dispVars,
                   rcVars, lstVars,
                   json_data, scheduled, executed, errors, frameVars, budget>>

\* the snapshot that leaves the queue as it is
DrainScheduledTasksWithoutClear ==
    /\ pc["main"] = "snap"
    /\ tasks' = main_tasks
    /\ mutex' = "free"
    /\ Goto("main", IF main_tasks = <<>> THEN "loop" ELSE "run")
    /\ UNCHANGED <<audioSent, dropped, appVars, main_tasks, schedEvent, audioVars, wwPaused, protoVars,
                   dispVars, rcVars, lstVars,
                   json_data, scheduled, executed, errors, frameVars,
                   budget>>

\* the snapshot that keeps the mutex for the tasks it goes on to run
DrainScheduledTasksKeepMutex ==
    /\ pc["main"] = "snap"
    /\ tasks' = main_tasks
    /\ main_tasks' = <<>>
    /\ mutex' = IF main_tasks = <<>> THEN "free" ELSE "main"
    /\ Goto("main", IF main_tasks = <<>> THEN "loop" ELSE "run")
    /\ UNCHANGED <<audioSent, dropped, appVars, schedEvent, audioVars, wwPaused, protoVars, dispVars,
                   rcVars, lstVars,
                   json_data, scheduled, executed, errors, frameVars, budget>>

\* lines 248-250: the snapshot, under the mutex, which the end of the with
\* block gives back
DrainScheduledTasks ==
    /\ pc["main"] = "snap"
    /\ tasks' = main_tasks
    /\ main_tasks' = <<>>
    /\ mutex' = "free"
    /\ Goto("main", IF main_tasks = <<>> THEN "loop" ELSE "run")
    /\ UNCHANGED <<audioSent, dropped, appVars, schedEvent, audioVars, wwPaused, protoVars, dispVars,
                   rcVars, lstVars,
                   json_data, scheduled, executed, errors, frameVars, budget>>

\* lines 252-254: the task at the head of the snapshot returns
RunScheduledTask ==
    /\ pc["main"] = "run"
    /\ executed' = Append(executed, Head(tasks))
    /\ tasks' = Tail(tasks)
    /\ Goto("main", AfterTask)
    /\ UNCHANGED <<audioSent, dropped, appVars, main_tasks, schedEvent, audioVars, wwPaused, protoVars,
                   dispVars, rcVars, lstVars,
                   json_data, scheduled, errors, mutex, frameVars, budget>>

\* lines 253-255: the task at the head of the snapshot raises an Exception
RunScheduledTaskRaises ==
    /\ pc["main"] = "run"
    /\ Goto("main", "except")
    /\ UNCHANGED <<appVars, schedVars, audioVars, wwPaused, protoVars, dispVars,
                   rcVars, logVars, frameVars, budget>>

\* an exception that ends the for loop of _process_scheduled_tasks
HandleTaskErrorEndsDrain ==
    /\ pc["main"] = "except"
    /\ errors' = errors + 1
    /\ executed' = Append(executed, Head(tasks))
    /\ tasks' = <<>>
    /\ Goto("main", "loop")
    /\ UNCHANGED <<audioSent, dropped, appVars, main_tasks, schedEvent, audioVars, wwPaused, protoVars,
                   dispVars, rcVars, lstVars,
                   json_data, scheduled, mutex, frameVars, budget>>

\* lines 255-256: the except clause logs the error; the for loop goes on
HandleTaskError ==
    /\ pc["main"] = "except"
    /\ errors' = errors + 1
    /\ executed' = Append(executed, Head(tasks))
    /\ tasks' = Tail(tasks)
    /\ Goto("main", AfterTask)
    /\ UNCHANGED <<audioSent, dropped, appVars, main_tasks, schedEvent, audioVars, wwPaused, protoVars,
                   dispVars, rcVars, lstVars,
                   json_data, scheduled, mutex, frameVars, budget>>

\* the steps of the main loop
MainLoopStep ==
    \/ MainLoopTest
    \/ MainLoopClear
    \/ DrainLock
    \/ DrainScheduledTasks
    \/ RunScheduledTask
    \/ RunScheduledTaskRaises
    \/ HandleTaskError
    \/ ScheduleAppend("main")
    \/ ScheduleSet("main")

NextSched ==
    \/ \E t \in Producers \cup {"main"} : ScheduleLock(t)
    \/ \E t \in Producers \cup {"main"} : ScheduleAppend(t)
    \/ \E t \in Producers \cup {"main"} : ScheduleSet(t)
    \/ MainLoopTest
    \/ MainLoopClear
    \/ DrainLock
    \/ DrainScheduledTasks
    \/ RunScheduledTask
    \/ RunScheduledTaskRaises
    \/ HandleTaskError

\* the main loop keeps running (line 230) and a thread inside schedule goes
\* on to line 267
SpecSched ==
    /\ InitWith(0)
    /\ [][NextSched]_vars
    /\ WF_vars(MainLoopStep)
    /\ \A t \in Producers : WF_vars(ScheduleAppend(t) \/ ScheduleSet(t))

----------------------------------------------------------------------------
(***************************************************************************)
(* set_device_state with its listeners, lines 725-787 and 1003-1005: after *)
(* the side effects of the state entered, the for loop of line 783 calls   *)
(* the listeners of on_state_changed_callbacks one by one, each inside a   *)
(* try block.  The scheduler thread and the loop thread call               *)
(* set_device_state, as they do in the application; any thread registers   *)
(* listeners.  A listener is taken to return or to raise an Exception.     *)
(***************************************************************************)
MaxListeners == 2
MaxCalls == 3

Listeners == {"a", "b"}

Callers == {"main", "io"}

\* on_state_changed, lines 1003-1005
OnStateChanged(l) ==
    /\ Len(on_state_changed_callbacks) < MaxListeners
    /\ on_state_changed_callbacks' = Append(on_state_changed_callbacks, l)
    /\ UNCHANGED <<audioSent, dropped, appVars, schedVars, audioVars, wwPaused, protoVars, dispVars,
                   rcVars, scheduled, executed, errors, mutex, invoked,
                   json_data, pc, frameVars, budget>>

\* a call of set_device_state(s) by thread t
SetDeviceState(t, s) ==
    /\ budget > 0
    /\ pc[t] = IF t = "main" THEN "loop" ELSE "idle"
    /\ CallSds(t, s, pc[t])
    /\ budget' = budget - 1
    /\ UNCHANGED <<appVars, schedVars, audioVars, wwPaused, protoVars, dispVars,
                   rcVars, logVars, ab>>

\* lines 738-780: the side effects of the state entered
SdsSideEffects(t) ==
    /\ pc[t] = "sds_fx"
    /\ status' = target[t]
    /\ outputActive' = CASE target[t] = IDLE -> FALSE
                         [] target[t] = SPEAKING -> TRUE
                         [] OTHER -> outputActive
    /\ inputActive' = CASE target[t] = LISTENING -> TRUE
                        [] target[t] = SPEAKING -> FALSE
                        [] OTHER -> inputActive
    /\ wwPaused' = IF target[t] = SPEAKING THEN TRUE ELSE wwPaused
    /\ Goto(t, "sds_notify")
    /\ UNCHANGED <<appVars, schedVars, outEvent, queue, outPoller, protoVars,
                   notified, alerts, rcVars, logVars, frameVars, budget>>

\* lines 783-785: the for loop calls the next listener with the argument of
\* set_device_state; the listener returns or raises
SdsNotify(t) ==
    /\ pc[t] = "sds_notify"
    /\ Len(invoked[t]) < Len(on_state_changed_callbacks)
    /\ invoked' = [invoked EXCEPT ![t] =
          Append(@, <<on_state_changed_callbacks[Len(invoked[t]) + 1], target[t]>>)]
    /\ notified' = target[t]
    /\ \E raises \in BOOLEAN : Goto(t, IF raises THEN "sds_except" ELSE "sds_notify")
    /\ UNCHANGED <<audioSent, dropped, appVars, schedVars, audioVars, wwPaused, protoVars, status,
                   alerts, rcVars, scheduled, executed, errors, mutex,
                   on_state_changed_callbacks, json_data, frameVars, budget>>

\* the for loop is over and set_device_state returns
SdsNotifyReturn(t) ==
    /\ Goto(t, sdsRet[t])
    /\ target' = [target EXCEPT ![t] = "none"]
    /\ sdsRet' = [sdsRet EXCEPT ![t] = "none"]
    /\ invoked' = [invoked EXCEPT ![t] = <<>>]
    /\ UNCHANGED <<audioSent, dropped, appVars, schedVars, audioVars, wwPaused, protoVars, dispVars,
                   rcVars, scheduled, executed, errors, mutex,
                   on_state_changed_callbacks, json_data, ab, budget>>

\* an exception of a listener that leaves set_device_state
SdsNotifyErrorEndsLoop(t) ==
    /\ pc[t] = "sds_except"
    /\ SdsNotifyReturn(t)

\* lines 786-787: the except clause logs the error; the for loop goes on
SdsNotifyError(t) ==
    /\ pc[t] = "sds_except"
    /\ errors' = errors + 1
    /\ Goto(t, "sds_notify")
    /\ UNCHANGED <<audioSent, dropped, appVars, schedVars, audioVars, wwPaused, protoVars, dispVars,
                   rcVars, scheduled, executed, mutex, lstVars, json_data,
                   frameVars, budget>>

\* line 783: no listener is left
SdsNotifyDone(t) ==
    /\ pc[t] = "sds_notify"
    /\ Len(invoked[t]) = Len(on_state_changed_callbacks)
    /\ SdsNotifyReturn(t)

NextNotify ==
    \/ \E l \in Listeners : OnStateChanged(l)
    \/ \E t \in Callers, s \in DeviceState : SetDeviceState(t, s)
    \/ \E t \in Callers : SdsCheck(t)
    \/ \E t \in Callers : SdsReturn(t)
    \/ \E t \in Callers : SdsWait(t)
    \/ \E t \in Callers : SdsAssign(t)
    \/ \E t \in Callers : SdsSideEffects(t)
    \/ \E t \in Callers : SdsNotify(t)
    \/ \E t \in Callers : SdsNotifyError(t)
    \/ \E t \in Callers : SdsNotifyDone(t)

SpecNotify == InitWith(MaxCalls) /\ [][NextNotify]_vars

----------------------------------------------------------------------------
(***************************************************************************)
(* _on_incoming_json and the handlers it dispatches to, lines 359-400,     *)
(* 435-462 and 638-642, message by message.  A control message is its      *)
(* "type", its "state" (read by the tts handler), and whether it carries a *)
(* text or an emotion: none, one that is only shown, or a text that asks   *)
(* for the camera.  A message without "type" has the type "" that line 372 *)
(* gives it; an empty message and one that is not an object end in the     *)
(* return of line 363 or in the except clause, like a type nobody handles. *)
(***************************************************************************)
MaxMessages == 2

MsgTypes == {"tts", "stt", "llm", "iot", "hello", ""}

TtsStates == {"start", "stop", "sentence_start", ""}

Payloads == {"", "text", "look"}

Messages == [type : MsgTypes, state : TtsStates, payload : Payloads]

\* lines 373-380 with lines 384-400, 435-462 and 638-642: the tasks the
\* handler of the message's type gives to schedule
JsonTasksOf(m) ==
    CASE m.type = "tts" /\ m.state = "start" -> <<"tts_start">>
      [] m.type = "tts" /\ m.state = "stop" -> <<"tts_stop">>
      [] m.type = "tts" /\ m.state = "sentence_start" /\ m.payload # "" ->
            <<"chat">>
      [] m.type = "stt" /\ m.payload = "text" -> <<"chat">>
      [] m.type = "stt" /\ m.payload = "look" -> <<"chat", "vision">>
      [] m.type = "llm" /\ m.payload # "" -> <<"emotion">>
      [] OTHER -> <<>>

\* the protocol calls _on_incoming_json(m) on the loop thread
OnIncomingJsonCall(m) ==
    /\ budget > 0
    /\ pc["io"] = "idle"
    /\ json_data' = m
    /\ Goto("io", "json")
    /\ budget' = budget - 1
    /\ UNCHANGED <<audioSent, dropped, appVars, schedVars, audioVars, wwPaused, protoVars, dispVars,
                   rcVars, scheduled, executed, errors, mutex, lstVars,
                   frameVars>>

\* the dispatch that takes every message for a tts start
OnIncomingJsonDispatchAnyType ==
    /\ pc["io"] = "json"
    /\ main_tasks' = main_tasks \o <<"tts_start">>
    /\ schedEvent' = TRUE
    /\ Goto("io", "idle")
    /\ UNCHANGED <<appVars, tasks, audioVars, wwPaused, protoVars, dispVars,
                   rcVars, logVars, frameVars, budget>>

\* lines 361-382
OnIncomingJsonDispatch ==
    /\ pc["io"] = "json"
    /\ main_tasks' = main_tasks \o JsonTasksOf(json_data)
    /\ schedEvent' = (schedEvent \/ JsonTasksOf(json_data) # <<>>)
    /\ Goto("io", "idle")
    /\ UNCHANGED <<appVars, tasks, audioVars, wwPaused, protoVars, dispVars,
                   rcVars, logVars, frameVars, budget>>

InitJson ==
    /\ device_state \in DeviceState
    /\ keep_listening \in BOOLEAN
    /\ aborted \in BOOLEAN
    /\ channelOpen = TRUE
    /\ main_tasks = <<>>
    /\ tasks = <<>>
    /\ schedEvent = FALSE
    /\ outEvent = FALSE
    /\ queue \in {<<>>, <<"pkt">>}
    /\ inputActive = (device_state = LISTENING)
    /\ outputActive = (device_state = SPEAKING)
    /\ outPoller = TRUE
    /\ wwPaused = (device_state # IDLE)
    /\ ioQueue = <<>>
    /\ openFuture = "none"
    /\ flows = [connecting |-> 0, opening |-> 0]
    /\ lastSent = <<"none", "">>
    /\ status = device_state
    /\ notified = device_state
    /\ alerts = 0
    /\ reconnect = "none"
    /\ retry_count = 0
    /\ connectCalls = 0
    /\ scheduled = <<>>
    /\ executed = <<>>
    /\ errors = 0
    /\ mutex = "free"
    /\ on_state_changed_callbacks = <<>>
    /\ invoked = [t \in Threads |-> <<>>]
    /\ json_data = NoMessage
    /\ audioSent = {}
    /\ dropped = 0
    /\ pc = [t \in Threads |-> IF t = "main" THEN "loop" ELSE "idle"]
    /\ target = [t \in Threads |-> "none"]
    /\ sdsRet = [t \in Threads |-> "none"]
    /\ ab = [t \in Threads |-> NoAbort]
    /\ budget = MaxMessages

NextJson ==
    \/ \E m \in Messages : OnIncomingJsonCall(m)
    \/ OnIncomingJsonDispatch

SpecJson == InitJson /\ [][NextJson]_vars

----------------------------------------------------------------------------
(***************************************************************************)
(* The audio sent to the server: the input cycle of the main loop (lines   *)
(* 233-237 and 269-279) and the frames _process_vision_analysis sends      *)
(* (lines 590-611), added to the steps of Next.  The input trigger (lines  *)
(* 672-686) sets AUDIO_INPUT_READY_EVENT while the input stream is active. *)
(***************************************************************************)
\* lines 236-237 and 271-272: an input cycle begins; it ends at once unless
\* device_state is LISTENING
HandleInputAudio ==
    /\ pc["main"] = "loop"
    /\ inputActive
    /\ device_state = LISTENING
    /\ Goto("main", "in_send")
    /\ UNCHANGED <<appVars, schedVars, audioVars, wwPaused, protoVars, dispVars,
                   rcVars, logVars, frameVars, budget>>

\* lines 274-279: read_audio returns a frame or nothing; a frame is handed
\* to protocol.send_audio if the channel is open
HandleInputAudioSend ==
    /\ pc["main"] = "in_send"
    /\ \E frame \in BOOLEAN :
          audioSent' = IF frame /\ channelOpen
                       THEN audioSent \cup {<<device_state, channelOpen>>}
                       ELSE audioSent
    /\ Goto("main", "loop")
    /\ UNCHANGED <<appVars, schedVars, audioVars, wwPaused, protoVars, dispVars,
                   rcVars, scheduled, executed, errors, mutex, lstVars,
                   json_data, dropped, frameVars, budget>>

\* lines 590-611: one more frame of the spoken analysis is handed to
\* protocol.send_audio
ProcessVisionAnalysisSendAudio ==
    /\ pc["main"] = "v_send"
    /\ audioSent' = audioSent \cup {<<device_state, channelOpen>>}
    /\ UNCHANGED <<appVars, schedVars, audioVars, wwPaused, protoVars, dispVars,
                   rcVars, scheduled, executed, errors, mutex, lstVars,
                   json_data, dropped, pc, frameVars, budget>>

NextCapture ==
    \/ Next
    \/ HandleInputAudio
    \/ HandleInputAudioSend
    \/ ProcessVisionAnalysisSendAudio

SpecCapture == InitShort /\ [][NextCapture]_vars

----------------------------------------------------------------------------
(***************************************************************************)
(* The packets of a speech turn.  _on_incoming_json schedules the task of  *)
(* tts 'start' (line 387) while _on_incoming_audio (lines 353-357) runs at *)
(* once on the loop thread: a packet that arrives while that task is still *)
(* queued is a packet of the turn, queued as "turn" or, outside SPEAKING,  *)
(* not queued at all.                                                      *)
(***************************************************************************)
\* the task of a tts 'start' is queued or running, and no tts 'stop' has
\* come after it
TurnOpening == Pending("tts_start") /\ ~Pending("tts_stop")

\* lines 355-357 for a packet of the turn
OnIncomingAudioOfTurn ==
    /\ TurnOpening
    /\ OnIncomingAudioPacket("turn", MaxQueue)

\* line 355, the test fails: the packet is not queued
OnIncomingAudioDropped ==
    /\ IoIdle /\ budget > 0 /\ channelOpen
    /\ device_state # SPEAKING
    /\ budget' = budget - 1
    /\ dropped' = dropped + 1
    /\ UNCHANGED <<appVars, schedVars, audioVars, wwPaused, protoVars, dispVars,
                   rcVars, scheduled, executed, errors, mutex, lstVars,
                   json_data, audioSent, pc, frameVars>>

NextTurn ==
    \/ Next
    \/ OnIncomingAudioOfTurn
    \/ OnIncomingAudioDropped

SpecTurn == InitShort /\ [][NextTurn]_vars

----------------------------------------------------------------------------
(***************************************************************************)
(* The playback of a speech turn that begins in IDLE on a channel that is  *)
(* still open.  InitPlayback is the state of Spec after start_listening    *)
(* and stop_listening: the streams and the poller                          *)
(* _audio_output_event_trigger were started when the channel opened (lines *)
(* 649-667) and set_device_state(IDLE) has stopped the output stream       *)
(* (lines 743-746).  The server then sends tts 'start', up to MaxBurst     *)
(* packets and tts 'stop'.  The main loop, the worker and the poller are   *)
(* threads that keep running; what the server sends is not forced.         *)
(***************************************************************************)
\* the packets of the turn: one more than a batch of play_audio
MaxBurst == 11

InitPlayback ==
    /\ device_state = IDLE
    /\ keep_listening = FALSE
    /\ aborted = FALSE
    /\ main_tasks = <<>>
    /\ tasks = <<>>
    /\ schedEvent = FALSE
    /\ outEvent = FALSE
    /\ queue = <<>>
    /\ inputActive = TRUE
    /\ outputActive = FALSE
    /\ outPoller = TRUE
    /\ wwPaused = TRUE
    /\ channelOpen = TRUE
    /\ ioQueue = <<>>
    /\ openFuture = "none"
    /\ flows = [connecting |-> 0, opening |-> 0]
    /\ lastSent = <<"stop_listening", "">>
    /\ status = IDLE
    /\ notified = IDLE
    /\ alerts = 0
    /\ reconnect = "none"
    /\ retry_count = 0
    /\ connectCalls = 0
    /\ scheduled = <<>>
    /\ executed = <<>>
    /\ errors = 0
    /\ mutex = "free"
    /\ on_state_changed_callbacks = <<>>
    /\ invoked = [t \in Threads |-> <<>>]
    /\ json_data = NoMessage
    /\ audioSent = {}
    /\ dropped = 0
    /\ pc = [t \in Threads |-> IF t = "main" THEN "loop" ELSE "idle"]
    /\ target = [t \in Threads |-> "none"]
    /\ sdsRet = [t \in Threads |-> "none"]
    /\ ab = [t \in Threads |-> NoAbort]
    /\ budget = MaxBurst + 2

\* _on_incoming_json, lines 359-390, for the tts messages of the turn
OnIncomingTts == OnIncomingJsonOf({"tts_start", "tts_stop"})

\* _on_incoming_audio, lines 353-357, for the packets of the turn
OnIncomingAudioBurst == OnIncomingAudioPacket("pkt", MaxBurst)

\* the threads of the turn: the scheduler thread and the worker
PlaybackThreads == {"main", "w1"}

\* set_device_state, lines 725-787, called by thread t
SdsSteps(t) ==
    \/ SdsCheck(t)
    \/ SdsWait(t)
    \/ SdsAssign(t)
    \/ SdsEffects(t)

\* the steps of the scheduler thread (_main_loop, lines 225-244)
MainLoopSteps ==
    \/ SdsSteps("main")
    \/ ProcessScheduledTasks
    \/ TaskDone
    \/ HandleOutputAudio
    \/ HandleTtsStart
    \/ HandleTtsStop

\* the steps of the worker delayed_state_change (lines 415-427)
WorkerSteps ==
    \/ DelayedStateChange
    \/ SdsSteps("w1")

NextPlayback ==
    \/ \E t \in PlaybackThreads : SdsCheck(t)
    \/ \E t \in PlaybackThreads : SdsWait(t)
    \/ \E t \in PlaybackThreads : SdsAssign(t)
    \/ \E t \in PlaybackThreads : SdsEffects(t)
    \/ ProcessScheduledTasks
    \/ TaskDone
    \/ HandleOutputAudio
    \/ HandleTtsStart
    \/ HandleTtsStop
    \/ DelayedStateChange
    \/ AudioOutputEventTrigger
    \/ OnIncomingTts
    \/ OnIncomingAudioBurst

SpecPlayback ==
    /\ InitPlayback
    /\ [][NextPlayback]_vars
    /\ WF_vars(MainLoopSteps)
    /\ WF_vars(WorkerSteps)
    /\ WF_vars(AudioOutputEventTrigger)

----------------------------------------------------------------------------
(***************************************************************************)
(* Properties.                                                             *)
(***************************************************************************)
SdsLabels == {"sds_check", "sds_ret", "sds_wait", "sds_assign", "sds_fx"}

\* thread t takes a step from label l
StepFrom(t, l) == pc[t] = l /\ pc'[t] # l

\* no call of set_device_state is in progress
NoTransitionInProgress == \A t \in Threads : pc[t] \notin SdsLabels

\* C1: device_state and keep_listening are written only by the scheduler
\* thread: no step of the loop thread (the handlers _on_network_error,
\* _on_audio_channel_closed, _connect_and_start_listening) changes
\* device_state or keep_listening.
C1_OnlySchedulerWrites ==
    [][(device_state' # device_state \/ keep_listening' # keep_listening)
         => pc'["io"] = pc["io"]]_vars

\* C2: the delayed workers delayed_state_change and
\* start_listening_after_abort never change device_state and never send a
\* protocol message themselves.
C2_WorkersOnlySchedule ==
    [][\A w \in Workers :
         (pc[w] # "idle" /\ pc'[w] # pc[w])
           => (device_state' = device_state /\ lastSent' = lastSent)]_vars

\* C3: set_device_state(target) with target equal to the current
\* device_state is a no-op: from the test to the return of the call
\* device_state, the streams, the wake-word detector, the display and the
\* listeners are untouched, and the call neither waits for the audio to
\* complete nor reaches the assignment and the side effects.
C3_ReentrantSetStateIsNoOp ==
    [][\A t \in Threads :
         /\ (StepFrom(t, "sds_check") /\ device_state = target[t])
              => /\ pc'[t] = "sds_ret"
                 /\ UNCHANGED <<device_state, inputActive, outputActive, outPoller,
                                wwPaused, status, notified, queue, lastSent>>
         /\ StepFrom(t, "sds_ret")
              => /\ pc'[t] = sdsRet[t]
                 /\ UNCHANGED <<device_state, inputActive, outputActive, outPoller,
                                wwPaused, status, notified, queue, lastSent>>]_vars

\* C3, its case: a call whose target is the current state is returning
C3_Witness == \E t \in Threads : pc[t] = "sds_ret" /\ target[t] = device_state

\* C4: when a call set_device_state(t) returns, device_state equals t.
C4_StateIsLastTarget ==
    [][\A t \in Threads :
         (StepFrom(t, "sds_fx") \/ StepFrom(t, "sds_ret"))
           => device_state' = target[t]]_vars

\* C5: whenever device_state is CONNECTING, LISTENING or SPEAKING the
\* wake-word detector is paused (read in the states in which no call of
\* set_device_state is under way).
C5_WakeWordPausedOutsideIdle ==
    (NoTransitionInProgress /\ device_state # IDLE) => wwPaused

\* C6: the capture stream is active if and only if device_state is
\* LISTENING (read in the states in which no call of set_device_state is
\* under way).
C6_CaptureIffListening ==
    NoTransitionInProgress => (inputActive <=> device_state = LISTENING)

\* C7: the playback queue is empty immediately after abort_speaking returns
\* and immediately after every transition of device_state from SPEAKING to
\* another state.
C7_QueueEmptyAfterAbort ==
    [][/\ (device_state = SPEAKING /\ device_state' # SPEAKING) => queue' = <<>>
       /\ \A t \in Threads : StepFrom(t, "abort_after") => queue' = <<>>]_vars

\* C8: whenever device_state becomes SPEAKING the playback queue holds no
\* packet that was queued before an earlier abort_speaking.
C8_NoStalePacketAtSpeakingEntry ==
    [][(device_state # SPEAKING /\ device_state' = SPEAKING)
         => \A i \in 1..Len(queue') : queue'[i] # "old"]_vars

\* The steps of the tts-stop worker delayed_state_change: it leaves
\* device_state alone until its drain wait has completed; then, if
\* keep_listening, it sends start-listening(AUTO_STOP) and calls
\* set_device_state(LISTENING), otherwise it calls set_device_state(IDLE); the
\* assignment of that call sets device_state to the target.
TtsStopWorkerSteps ==
    /\ StepFrom("w1", "w1_wait")
         => /\ device_state' = device_state
            /\ lastSent' = lastSent
            /\ IF keep_listening
               THEN pc'["w1"] = "w1_send"
               ELSE pc'["w1"] = "sds_check" /\ target'["w1"] = IDLE
    /\ StepFrom("w1", "w1_send")
         => /\ lastSent' = <<"start_listening", "AUTO_STOP">>
            /\ device_state' = device_state
            /\ pc'["w1"] = "sds_check" /\ target'["w1"] = LISTENING
    /\ StepFrom("w1", "sds_assign")
         => /\ target["w1"] \in {IDLE, LISTENING}
            /\ device_state' = target["w1"]

\* C9 as the spec states it: after a tts 'stop' handled in SPEAKING the
\* device stays SPEAKING until the drain wait of the worker has completed;
\* then, if keep_listening, start-listening(AUTO_STOP) is sent and the state
\* becomes LISTENING, otherwise the state becomes IDLE.
C9_TtsStopDeferred ==
    /\ [](pc["w1"] = "w1_wait" => device_state = SPEAKING)
    /\ [][TtsStopWorkerSteps]_vars

\* C9 as amended: the worker itself leaves device_state alone until its
\* drain wait has completed (another thread may move the device out of
\* SPEAKING meanwhile); after the wait, if keep_listening, it sends
\* start-listening(AUTO_STOP) and then sets device_state to LISTENING,
\* otherwise it sets device_state to IDLE.
C9_TtsStopDeferredByWorker == [][TtsStopWorkerSteps]_vars

\* C9, its case: the worker has sent start-listening(AUTO_STOP) and has set
\* the state to LISTENING
C9_Witness ==
    /\ pc["w1"] = "sds_fx" /\ target["w1"] = LISTENING
    /\ device_state = LISTENING
    /\ lastSent = <<"start_listening", "AUTO_STOP">>

\* C10: after abort_speaking(WAKE_WORD_DETECTED) in SPEAKING with
\* keep_listening set, the listening flow is re-triggered and brings the
\* device to LISTENING with start-listening(AUTO_STOP) sent: the re-triggered
\* _toggle_chat_state_impl takes its begin-listening branch (lines 919-950,
\* the only one that sends start-listening and sets LISTENING), whose first
\* step is set_device_state(CONNECTING).
C10_RetriggerBeginsListening ==
    [][(/\ pc["main"] = "run" /\ tasks # <<>> /\ Head(tasks) = "toggle_impl_r"
        /\ pc'["main"] # "run")
         => (pc'["main"] = "sds_check" /\ target'["main"] = CONNECTING)]_vars

\* C11: _handle_tts_start purges the playback queue and leaves device_state
\* as it is in its own step; when it finds IDLE or LISTENING it then calls
\* set_device_state(SPEAKING), which assigns SPEAKING with the queue still
\* empty; when it finds CONNECTING or SPEAKING it returns without a call of
\* set_device_state.
TtsStartSteps ==
    /\ (pc["main"] = "run" /\ Head(tasks) = "tts_start" /\ pc'["main"] # "run") =>
          /\ queue' = <<>>
          /\ device_state' = device_state
          /\ IF device_state \in {IDLE, LISTENING}
             THEN pc'["main"] = "sds_check" /\ target'["main"] = SPEAKING
             ELSE pc'["main"] = "done"
    /\ (pc["main"] \in SdsLabels /\ tasks # <<>> /\ Head(tasks) = "tts_start") =>
          /\ pc'["main"] # "sds_ret"
          /\ StepFrom("main", "sds_assign") => queue = <<>> /\ device_state' = SPEAKING

C11_TtsStartPurgesThenSpeaks == [][TtsStartSteps]_vars

\* a tts start found LISTENING with a purged queue and has just set SPEAKING
C11_Witness ==
    /\ pc["main"] = "sds_fx" /\ tasks # <<>> /\ Head(tasks) = "tts_start"
    /\ device_state = SPEAKING /\ queue = <<>> /\ status = LISTENING

\* a tts start found SPEAKING, purged a packet and returned
C11_WitnessSpeaking ==
    /\ pc["main"] = "done" /\ tasks # <<>> /\ Head(tasks) = "tts_start"
    /\ device_state = SPEAKING /\ queue = <<>> /\ outEvent

\* the steps of the wake-word flow (_handle_wake_word_detected and
\* _connect_and_start_listening) in program order
WakeFlowSteps ==
    /\ (pc["main"] = "run" /\ Head(tasks) = "wake" /\ pc'["main"] # "run") =>
          IF device_state = IDLE
          THEN /\ wwPaused' /\ device_state' = IDLE
               /\ pc'["main"] = "sds_check" /\ target'["main"] = CONNECTING
               /\ sdsRet'["main"] = "wk_submit"
          ELSE pc'["main"] = "done" /\ UNCHANGED <<wwPaused, device_state, ioQueue>>
    /\ (pc["main"] \in SdsLabels /\ sdsRet["main"] = "wk_submit") =>
          /\ pc'["main"] # "sds_ret"
          /\ ioQueue' = ioQueue \/ pc'["main"] = pc["main"]
          /\ StepFrom("main", "sds_assign") => device_state' = CONNECTING
    /\ StepFrom("main", "wk_submit") => ioQueue' = Append(ioQueue, "flow")
    /\ (pc["io"] = "idle" /\ pc'["io"] = "fl_start") =>
          /\ channelOpen'
          /\ lastSent' = <<"wake_word_detected", "">>
          /\ UNCHANGED <<keep_listening, device_state>>
    /\ StepFrom("io", "fl_start") =>
          /\ keep_listening'
          /\ lastSent' = <<"start_listening", "AUTO_STOP">>
          /\ device_state' = device_state
          /\ pc'["io"] = "sds_check" /\ target'["io"] = LISTENING
    /\ (pc["io"] = "sds_assign" /\ sdsRet["io"] = "idle" /\ pc'["io"] # pc["io"]) =>
          device_state' = LISTENING

\* the wake-word flow returns from its last call of set_device_state
WakeFlowEnds ==
    /\ pc["io"] \in {"sds_fx", "sds_ret"} /\ target["io"] = LISTENING
    /\ pc'["io"] = "idle"

\* C12: a wake word handled in IDLE, with connect() and the channel open
\* succeeding: the detector is paused, device_state is set to CONNECTING,
\* the flow is handed to the loop, the channel is opened, wake-word-detected
\* is sent, keep_listening is set and start-listening(AUTO_STOP) is sent,
\* device_state is set to LISTENING, in this order; when the flow ends
\* device_state is LISTENING and keep_listening is true.
C12_WakeWordFlow ==
    [][WakeFlowSteps /\ (WakeFlowEnds => device_state' = LISTENING /\ keep_listening')]_vars

C12_WakeWordFlowOrder == [][WakeFlowSteps]_vars

C12_Witness ==
    /\ pc["io"] = "sds_fx" /\ target["io"] = LISTENING /\ sdsRet["io"] = "idle"
    /\ device_state = LISTENING /\ keep_listening
    /\ lastSent = <<"start_listening", "AUTO_STOP">> /\ channelOpen /\ wwPaused

\* the scheduler thread takes a step inside the task _start_listening_impl
StartImplStep(l) ==
    /\ tasks # <<>> /\ Head(tasks) = "start_impl"
    /\ StepFrom("main", l)

\* C13: _start_listening_impl in IDLE calls set_device_state(CONNECTING),
\* which assigns CONNECTING; it requests open_audio_channel iff the channel
\* is not open and waits for the result; with the result True (or the
\* channel open already) it sends start-listening(MANUAL) and calls
\* set_device_state(LISTENING); with the result False, an exception or the
\* 10 s passed it calls alert once and set_device_state(IDLE), which assigns
\* IDLE unless it finds IDLE already, and it sends no message.
StartListeningSteps ==
    /\ (StartImplStep("run") /\ device_state = IDLE) =>
          /\ pc'["main"] = "sds_check" /\ target'["main"] = CONNECTING
          /\ sdsRet'["main"] = "open"
          /\ UNCHANGED <<lastSent, alerts, ioQueue>>
    /\ (tasks # <<>> /\ Head(tasks) = "start_impl" /\ sdsRet["main"] = "open") =>
          /\ pc'["main"] # "sds_ret"
          /\ StepFrom("main", "sds_assign") => device_state' = CONNECTING
    /\ StartImplStep("open") =>
          /\ UNCHANGED <<lastSent, alerts, device_state>>
          /\ IF channelOpen
             THEN pc'["main"] = "send" /\ ioQueue' = ioQueue
             ELSE pc'["main"] = "wait" /\ ioQueue' = Append(ioQueue, "open")
    /\ StartImplStep("wait") =>
          /\ UNCHANGED <<lastSent, device_state>>
          /\ IF openFuture = "ok"
             THEN pc'["main"] = "send" /\ alerts' = alerts
             ELSE /\ openFuture \in {"fail", "pending"}
                  /\ alerts' = alerts + 1
                  /\ pc'["main"] = "sds_check" /\ target'["main"] = IDLE
                  /\ sdsRet'["main"] = "done"
    /\ StartImplStep("send") =>
          /\ lastSent' = <<"start_listening", "MANUAL">>
          /\ pc'["main"] = "sds_check" /\ target'["main"] = LISTENING
          /\ sdsRet'["main"] = "done"
          /\ UNCHANGED <<alerts, device_state>>
    /\ (tasks # <<>> /\ Head(tasks) = "start_impl" /\ pc["main"] \in SdsLabels
          /\ sdsRet["main"] = "done" /\ pc'["main"] # pc["main"]) =>
          /\ UNCHANGED <<lastSent, alerts>>
          /\ StepFrom("main", "sds_assign") => device_state' = target["main"]
          /\ (StepFrom("main", "sds_check") /\ pc'["main"] = "sds_ret") =>
                device_state = target["main"]

C13_StartListening == [][StartListeningSteps]_vars

\* the open has failed or timed out: the alert is out, IDLE is being set
C13_Witness ==
    /\ tasks # <<>> /\ Head(tasks) = "start_impl"
    /\ pc["main"] = "sds_assign" /\ target["main"] = IDLE
    /\ device_state = CONNECTING /\ alerts = 1 /\ lastSent = <<"none", "">>

\* the open has succeeded: start-listening(MANUAL) is out, LISTENING is set
C13_WitnessSuccess ==
    /\ tasks # <<>> /\ Head(tasks) = "start_impl"
    /\ pc["main"] = "sds_fx" /\ target["main"] = LISTENING
    /\ device_state = LISTENING /\ alerts = 0
    /\ lastSent = <<"start_listening", "MANUAL">>

\* the scheduler thread takes a step inside the task _stop_listening_impl
StopImplStep(l) ==
    /\ tasks # <<>> /\ Head(tasks) = "stop_impl"
    /\ StepFrom("main", l)

\* C14: _stop_listening_impl in LISTENING sends stop-listening once and
\* calls set_device_state(IDLE), which sends nothing more and assigns IDLE
\* unless it finds IDLE already; in any other state it returns at once,
\* having sent nothing and with device_state as it was.
StopListeningSteps ==
    /\ StopImplStep("run") =>
          /\ device_state' = device_state
          /\ IF device_state = LISTENING
             THEN /\ lastSent' = <<"stop_listening", "">>
                  /\ pc'["main"] = "sds_check" /\ target'["main"] = IDLE
                  /\ sdsRet'["main"] = "done"
             ELSE /\ lastSent' = lastSent
                  /\ pc'["main"] = "done"
    /\ (tasks # <<>> /\ Head(tasks) = "stop_impl" /\ pc["main"] \in SdsLabels
          /\ pc'["main"] # pc["main"]) =>
          /\ lastSent' = lastSent
          /\ target["main"] = IDLE
          /\ StepFrom("main", "sds_assign") => device_state' = IDLE
          /\ (StepFrom("main", "sds_check") /\ pc'["main"] = "sds_ret") =>
                device_state = IDLE

C14_StopListening == [][StopListeningSteps]_vars

\* stop-listening is out and IDLE has been assigned
C14_Witness ==
    /\ tasks # <<>> /\ Head(tasks) = "stop_impl"
    /\ pc["main"] = "sds_fx" /\ target["main"] = IDLE
    /\ device_state = IDLE /\ lastSent = <<"stop_listening", "">>

\* a stop found CONNECTING and returned
C14_WitnessOtherState ==
    /\ tasks # <<>> /\ Head(tasks) = "stop_impl"
    /\ pc["main"] = "done" /\ device_state = CONNECTING /\ lastSent = <<"none", "">>

\* _on_network_error returns
NetworkErrorReturns ==
    /\ pc["io"] \in {"ne_resume", "ne_close"}
    /\ pc'["io"] = "idle"

\* C15: when _on_network_error returns, device_state is IDLE, keep_listening
\* is false, the wake-word detector is not paused, and the return is the
\* step that hands close_audio_channel to the loop.
C15_NetworkErrorEndsIdle ==
    [][NetworkErrorReturns =>
          /\ device_state' = IDLE
          /\ ~keep_listening'
          /\ ~wwPaused'
          /\ pc["io"] = "ne_close" /\ ioQueue' = Append(ioQueue, "close")]_vars

\* C16: when _on_network_error returns, the reconnection has been started.
C16_NetworkErrorStartsReconnect ==
    [][NetworkErrorReturns => reconnect' # "none"]_vars

\* C17: _reconnect calls connect() at most max_retries times; when it
\* returns False it has called connect() exactly max_retries times, all of
\* them failures; when connect() succeeds it has been called once more than
\* it has failed, and it is not called again.
ReconnectCalls ==
    /\ connectCalls' <= max_retries
    /\ reconnect' \in {"giving_up", "failed"} =>
          connectCalls' = max_retries /\ retry_count' = max_retries
    /\ reconnect' \in {"connected", "succeeded"} =>
          connectCalls' = retry_count' + 1
    /\ reconnect \in {"connected", "succeeded", "giving_up", "failed"} =>
          connectCalls' = connectCalls

C17_ReconnectConnectCalls == [][ReconnectCalls]_vars

\* every attempt has failed and _reconnect has returned False
C17_Witness == reconnect = "failed" /\ connectCalls = max_retries

\* the second attempt has succeeded and _reconnect has returned True
C17_WitnessSuccess == reconnect = "succeeded" /\ connectCalls = 2

\* the alert tasks scheduled and not yet run
RECURSIVE CountAlerts(_)
CountAlerts(q) ==
    IF q = <<>> THEN 0
    ELSE (IF Head(q) = "alert" THEN 1 ELSE 0) + CountAlerts(Tail(q))

AlertsDue ==
    CountAlerts(main_tasks) + CountAlerts(tasks)
      - (IF pc["main"] = "done" /\ tasks # <<>> /\ Head(tasks) = "alert" THEN 1 ELSE 0)

\* the scheduler thread has nothing left to run
SchedulerAtRest == pc["main"] = "loop" /\ ~schedEvent /\ main_tasks = <<>>

\* C18: when _reconnect has returned False, device_state is IDLE and one
\* alert has been scheduled, which is emitted once the scheduler has run
\* its tasks; when it has returned True, device_state is IDLE and no alert
\* has been scheduled or emitted.
C18_ReconnectAlert ==
    /\ reconnect = "failed" =>
          /\ device_state = IDLE
          /\ alerts + AlertsDue = 1
          /\ SchedulerAtRest => alerts = 1
    /\ reconnect = "succeeded" =>
          /\ device_state = IDLE
          /\ alerts = 0 /\ AlertsDue = 0

\* every attempt has failed and the alert has been emitted
C18_Witness ==
    /\ reconnect = "failed" /\ SchedulerAtRest
    /\ alerts = 1 /\ device_state = IDLE

\* an attempt has succeeded
C18_WitnessSuccess ==
    /\ reconnect = "succeeded" /\ SchedulerAtRest
    /\ alerts = 0 /\ device_state = IDLE

\* the tasks scheduled and not yet finished, oldest first: the snapshot the
\* scheduler thread is working through, then the queue
PendingTasks == tasks \o main_tasks

\* C19: the pending tasks change only by a task appended at the end (a call
\* of schedule) or by the oldest one leaving when the scheduler thread has
\* finished it; the scheduler thread runs the oldest pending task only, and
\* begins a task only from the loop or when the task before has returned.
SchedulerFifoSteps ==
    /\ \/ PendingTasks' = PendingTasks
       \/ \E k \in {main_tasks'[i] : i \in 1..Len(main_tasks')} :
             PendingTasks' = Append(PendingTasks, k)
       \/ /\ pc["main"] = "done" /\ PendingTasks # <<>>
          /\ PendingTasks' = Tail(PendingTasks)
    /\ tasks' # tasks =>
          \/ tasks = <<>> /\ pc["main"] = "loop" /\ tasks' = main_tasks
          \/ pc["main"] = "done" /\ tasks' = Tail(tasks)
    /\ pc'["main"] # "loop" => tasks' # <<>>
    /\ (pc'["main"] = "run" /\ pc["main"] # "run") => pc["main"] \in {"loop", "done"}
    /\ (pc["main"] \notin {"loop", "done"} /\ tasks' # <<>>) => Head(tasks') = Head(tasks)

C19_TasksRunFifo == [][SchedulerFifoSteps]_vars

\* the first of two different tasks of one snapshot has returned, a third
\* task waits in the queue
C19_Witness ==
    /\ pc["main"] = "done" /\ Len(tasks) = 2 /\ tasks[1] # tasks[2]
    /\ main_tasks # <<>>

\* the number of places of the sequence q that hold x
Occurrences(x, q) == Cardinality({i \in 1..Len(q) : q[i] = x})

\* every task given to schedule that is not an abort-of-speech task is in
\* one place: in the queue, in the snapshot, or among the tasks that have run
TaskHeldOnce ==
    \A i \in 1..Len(scheduled) :
        scheduled[i] = "task" =>
            Occurrences(i, main_tasks) + Occurrences(i, tasks)
              + Occurrences(i, executed) = 1

\* a task in the queue has a wake-up ahead of it: the event is set, or the
\* main loop is about to take the snapshot, or a thread is about to set it
NoLostWakeUp ==
    main_tasks # <<>> =>
        \/ schedEvent
        \/ pc["main"] \in {"clear", "drain", "snap"}
        \/ \E t \in Threads : pc[t] = "sch_set"

\* a task given to schedule that is not an abort-of-speech task runs
EveryTaskRuns ==
    \A i \in 1..MaxSched :
        (Len(scheduled) >= i /\ scheduled[i] = "task") ~> (Occurrences(i, executed) = 1)

\* C20: every task given to schedule that is not an abort-of-speech task is
\* never dropped or duplicated, is never left in the queue without a
\* wake-up, and is executed (once) in the end, in every interleaving of
\* schedule (append, then set the event) with the main loop (test the
\* event, clear it, take the snapshot, run the tasks).
C20_EveryTaskRunsOnce == [](TaskHeldOnce /\ NoLostWakeUp) /\ EveryTaskRuns

\* a task appended after the main loop cleared the event has run before its
\* thread has set the event
C20_Witness ==
    /\ \E t \in Producers : pc[t] = "sch_set"
    /\ executed # <<>> /\ executed[Len(executed)] = Len(scheduled)
    /\ ~schedEvent

\* the step by which the scheduler thread leaves the except clause
TaskErrorSteps ==
    /\ (pc["main"] = "except" /\ pc'["main"] # "except") =>
          /\ tasks' = Tail(tasks)
          /\ main_tasks' = main_tasks
          /\ pc'["main"] = IF Tail(tasks) = <<>> THEN "loop" ELSE "run"
    /\ executed' # executed => executed' = Append(executed, Head(tasks))

\* once a task has raised, every task given to schedule, before or after,
\* that is not an abort-of-speech task runs
TasksRunAfterError ==
    \A i \in 1..MaxSched :
        ((errors > 0 \/ pc["main"] = "except")
            /\ Len(scheduled) >= i /\ scheduled[i] = "task")
          ~> (Occurrences(i, executed) = 1)

\* C21: when a task raises during the drain, the except clause leaves the
\* rest of the snapshot and the queue as they are and the scheduler thread
\* goes on with the next task of the snapshot, the tasks run in the order of
\* the snapshot, and the main loop keeps running: the tasks that wait and
\* the tasks scheduled afterwards are executed.
C21_TaskErrorIsolated == [][TaskErrorSteps]_vars /\ TasksRunAfterError

\* the first of three tasks of one snapshot has raised
C21_Witness == pc["main"] = "except" /\ Len(tasks) >= 2

\* after a task raised, the next one of its snapshot has run and a task
\* scheduled after the error has run too
C21_WitnessAfter ==
    /\ errors = 1 /\ Len(executed) = 3 /\ pc["main"] = "loop"

\* the mutex is held only by a thread inside the with block of schedule or
\* of _process_scheduled_tasks, which gives it back by its next step
MutexHeldOnlyBriefly ==
    /\ mutex # "free" =>
          /\ pc[mutex] \in {"sch_lock", "snap"}
          /\ ENABLED (ScheduleAppend(mutex) \/ DrainScheduledTasks)
    /\ pc["main"] \in {"run", "except", "sch_set"} => mutex # "main"

\* the snapshot changes only when it is taken, at the start of a drain, and
\* when its first task has ended: an append never reaches it
SnapshotSteps ==
    /\ tasks' # tasks =>
          \/ pc["main"] = "snap" /\ tasks = <<>> /\ tasks' = main_tasks
          \/ pc["main"] \in {"run", "except"} /\ tasks' = Tail(tasks)
    /\ \A t \in Threads :
          (pc[t] = "sch_lock" /\ pc'[t] = "sch_set") =>
              /\ tasks' = tasks
              /\ main_tasks' = Append(main_tasks, Len(scheduled'))

\* C22: the mutex is held only while schedule appends or while the drain
\* takes and clears the snapshot, never while a task executes, and whoever
\* holds it gives it back without waiting for anything, so that a running
\* task and every other thread can call schedule; a task appended during a
\* drain goes to the queue, not to the snapshot, and runs in a later drain.
C22_MutexNotHeldByTasks == [](MutexHeldOnlyBriefly) /\ [][SnapshotSteps]_vars

\* a running task has called schedule during the drain: its task is in the
\* queue, not in the snapshot
C22_Witness ==
    /\ pc["main"] = "sch_set" /\ tasks # <<>>
    /\ main_tasks # <<>> /\ main_tasks[Len(main_tasks)] = Len(scheduled)

\* the places of the queue that hold an abort-of-speech task
AbortTasksQueued == {i \in 1..Len(main_tasks) : scheduled[main_tasks[i]] = "abort"}

\* schedule given an abort-of-speech task while one is in the queue
ScheduleAbortSteps ==
    \A t \in Threads :
        (pc[t] = "sch_lock" /\ pc'[t] # "sch_lock"
            /\ KindOf(t) = "abort" /\ AbortTasksQueued # {}) =>
                /\ main_tasks' = main_tasks
                /\ schedEvent' = schedEvent
                /\ pc'[t] = "idle"

\* C23: the queue never holds more than one abort-of-speech task (a task
\* schedule recognises by 'abort_speaking' in its text, lines 262-264), and
\* schedule given such a task while one is in the queue returns with the
\* queue as it was.
C23_OneAbortTaskQueued ==
    [](Cardinality(AbortTasksQueued) <= 1) /\ [][ScheduleAbortSteps]_vars

\* schedule was given two abort-of-speech tasks: the first is in the queue,
\* the second is nowhere
C23_Witness ==
    \E i, j \in 1..Len(scheduled) :
        /\ i < j /\ scheduled[i] = "abort" /\ scheduled[j] = "abort"
        /\ Occurrences(i, main_tasks) = 1
        /\ Occurrences(j, main_tasks \o tasks \o executed) = 0
        /\ pc["w2"] = "idle"

\* the steps of a call of set_device_state come in the order of its lines:
\* leaving SPEAKING waits for the playback before the assignment, the side
\* effects follow the assignment, the listeners follow the side effects
SdsOrderSteps ==
    \A t \in Callers :
        /\ (StepFrom(t, "sds_check") /\ device_state = SPEAKING
              /\ target[t] # SPEAKING) => pc'[t] = "sds_wait"
        /\ StepFrom(t, "sds_wait") =>
              pc'[t] = "sds_assign" /\ device_state' = device_state
        /\ StepFrom(t, "sds_assign") =>
              pc'[t] = "sds_fx" /\ device_state' = target[t]
        /\ StepFrom(t, "sds_fx") =>
              pc'[t] = "sds_notify" /\ invoked[t] = <<>> /\ invoked' = invoked
        /\ invoked'[t] # invoked[t] => pc[t] \in {"sds_notify", "sds_except"}

\* a listener is called while device_state is the state it is given
ListenerSeesNewState ==
    \A t \in Callers :
        Len(invoked'[t]) > Len(invoked[t]) => device_state = target[t]

C24_OrderOfSteps == [][SdsOrderSteps]_vars

\* C24: on a genuine transition set_device_state waits for the playback
\* (when the old state is SPEAKING) before it changes device_state, then
\* runs the side effects of the new state, then calls the listeners, and
\* every listener is called while device_state equals the new state.
C24_TransitionOrder == [][SdsOrderSteps /\ ListenerSeesNewState]_vars

\* the listeners a call of set_device_state has to call, with its argument
ListenersDue(t) ==
    [i \in 1..Len(on_state_changed_callbacks) |->
        <<on_state_changed_callbacks[i], target[t]>>]

\* the steps of the for loop of line 783
ListenerSteps ==
    \A t \in Callers :
        /\ StepFrom(t, "sds_fx") => pc'[t] = "sds_notify"
        /\ (StepFrom(t, "sds_notify") /\ pc'[t] # "sds_except") =>
              invoked[t] = ListenersDue(t)
        /\ StepFrom(t, "sds_except") =>
              /\ pc'[t] = "sds_notify"
              /\ device_state' = device_state
              /\ UNCHANGED <<status, inputActive, outputActive, wwPaused>>
        /\ Len(invoked'[t]) > Len(invoked[t]) =>
              invoked'[t] = [i \in 1..Len(invoked'[t]) |-> ListenersDue(t)[i]]

\* C25: on every genuine transition the for loop of set_device_state calls
\* each registered listener once, with the new state, in the order of
\* registration; a listener that raises neither keeps the loop from the
\* listeners after it nor changes device_state or the side effects made.
C25_ListenersCalledInOrder == [][ListenerSteps]_vars

\* the first of two listeners has raised, and the second has been called
C25_Witness ==
    \E t \in Callers :
        /\ pc[t] = "sds_notify" /\ Len(invoked[t]) = 2
        /\ errors = 1 /\ device_state = target[t]
        /\ on_state_changed_callbacks = <<"b", "a">>

\* a listener has raised
C25_WitnessRaised ==
    \E t \in Callers : pc[t] = "sds_except" /\ Len(invoked[t]) = 1
                        /\ Len(on_state_changed_callbacks) = 2

\* nothing is under way: every thread is at rest, no task waits, no
\* coroutine waits on the loop or inside the protocol
Quiescent ==
    /\ \A t \in Threads : pc[t] = IF t = "main" THEN "loop" ELSE "idle"
    /\ main_tasks = <<>> /\ tasks = <<>> /\ ioQueue = <<>>
    /\ openFuture = "none"
    /\ flows = [connecting |-> 0, opening |-> 0]

\* C26: a transition into IDLE resumes the wake-word detector: once the
\* handler that called set_device_state(IDLE) and everything it started have
\* run to their end, device_state being IDLE, the detector is not paused.
C26_IdleResumesDetector == (Quiescent /\ device_state = IDLE) => ~wwPaused

\* the output cycle is the only step that clears AUDIO_OUTPUT_READY_EVENT
OutputCycleSteps ==
    (outEvent /\ ~outEvent') =>
        /\ pc["main"] = "loop" /\ pc'["main"] = "loop"
        /\ device_state = SPEAKING => queue' = PlayAudio(queue)
        /\ device_state # SPEAKING => queue' = queue

\* C27: an output cycle (the main loop consuming AUDIO_OUTPUT_READY_EVENT)
\* plays a batch of the queue if device_state is SPEAKING when it runs and
\* leaves the queue as it is otherwise.
C27_PlayIffSpeaking == [][OutputCycleSteps]_vars

\* a packet is in the queue and the event is clear: the cycle that consumed
\* the event the packet had set ran outside SPEAKING and played nothing
C27_Witness == device_state # SPEAKING /\ queue # <<>> /\ ~outEvent

\* an output cycle is about to run in SPEAKING with a packet in the queue
C27_WitnessSpeaking ==
    device_state = SPEAKING /\ queue # <<>> /\ outEvent /\ pc["main"] = "loop"

\* C28: when the audio channel has closed and its callback has been handled
\* (_on_audio_channel_closed returns; the _stop_audio_streams task it
\* scheduled has run), the playback queue is empty.
C28_QueueEmptyAfterChannelClosed ==
    [][(\/ StepFrom("io", "cc_after")
        \/ (Running("stop_streams") /\ pc'["main"] = "done"))
         => queue' = <<>>]_vars

\* the types _on_incoming_json has a handler for, lines 373-378
HandledTypes == {"tts", "stt", "llm"}

\* C29: _on_incoming_json given a message whose type is not tts, stt or llm
\* (a message without a type included) returns with device_state,
\* keep_listening, aborted and the playback queue as they were, with no
\* task given to schedule and no protocol message sent.
C29_UnknownTypeIgnored ==
    [][(StepFrom("io", "json") /\ json_data.type \notin HandledTypes) =>
          /\ UNCHANGED <<device_state, keep_listening, aborted, queue>>
          /\ UNCHANGED <<main_tasks, tasks, schedEvent>>
          /\ UNCHANGED <<lastSent, ioQueue>>]_vars

\* a message of a type nobody handles, carrying a text and the state
\* "start", has been handled after a tts start: only that one is queued
C29_Witness ==
    /\ pc["io"] = "idle" /\ budget = 0
    /\ json_data.type \in {"iot", ""} /\ json_data.state = "start"
    /\ main_tasks = <<"tts_start">>

\* the loop thread takes a step inside the set_device_state(IDLE) of a
\* failure branch of _connect_and_start_listening
FlowFailureSdsStep ==
    /\ pc["io"] \in SdsLabels /\ sdsRet["io"] \in {"fl_resume", "fl_alert"}
    /\ pc'["io"] # pc["io"]

\* C30: when connect() or open_audio_channel() fails,
\* _connect_and_start_listening calls alert once and set_device_state(IDLE),
\* which assigns IDLE unless it finds IDLE already, resumes the detector and
\* returns; it sends neither wake-word-detected nor start-listening and
\* does not assign keep_listening.
WakeFlowFailureSteps ==
    /\ (flows'.connecting < flows.connecting /\ flows'.opening = flows.opening) =>
          /\ alerts' = alerts + 1
          /\ pc'["io"] = "sds_check" /\ target'["io"] = IDLE
          /\ sdsRet'["io"] = "fl_resume"
          /\ UNCHANGED <<lastSent, keep_listening, device_state>>
    /\ (flows'.opening < flows.opening /\ ~channelOpen') =>
          /\ pc'["io"] = "sds_check" /\ target'["io"] = IDLE
          /\ sdsRet'["io"] = "fl_alert"
          /\ UNCHANGED <<lastSent, keep_listening, device_state, alerts>>
    /\ FlowFailureSdsStep =>
          /\ target["io"] = IDLE
          /\ UNCHANGED <<lastSent, keep_listening, alerts>>
          /\ StepFrom("io", "sds_assign") => device_state' = IDLE
          /\ (StepFrom("io", "sds_check") /\ pc'["io"] = "sds_ret") =>
                device_state = IDLE
    /\ StepFrom("io", "fl_resume") =>
          /\ ~wwPaused' /\ pc'["io"] = "idle"
          /\ UNCHANGED <<lastSent, keep_listening, alerts, device_state>>
    /\ StepFrom("io", "fl_alert") =>
          /\ alerts' = alerts + 1
          /\ ~wwPaused' /\ pc'["io"] = "idle"
          /\ UNCHANGED <<lastSent, keep_listening, device_state>>

C30_WakeFlowFailure == [][WakeFlowFailureSteps]_vars

\* connect() has failed: the alert is out, IDLE has been assigned, nothing
\* was sent, and the flow is about to resume the detector
C30_Witness ==
    /\ pc["io"] = "fl_resume" /\ alerts = 1
    /\ device_state = IDLE /\ wwPaused
    /\ lastSent = <<"none", "">> /\ ~keep_listening

\* open_audio_channel() has failed: IDLE has been assigned, nothing was
\* sent, and the flow is about to alert and to resume the detector
C30_WitnessOpen ==
    /\ pc["io"] = "fl_alert" /\ alerts = 0
    /\ device_state = IDLE /\ wwPaused
    /\ lastSent = <<"none", "">> /\ ~keep_listening

\* C31: when _on_audio_channel_closed returns, device_state is IDLE,
\* keep_listening is false, the wake-word detector is not paused, and the
\* task that stops the input and output streams is the last of the queue.
C31_ChannelClosedEndsIdle ==
    [][StepFrom("io", "cc_after") =>
          /\ device_state' = IDLE
          /\ ~keep_listening'
          /\ ~wwPaused'
          /\ main_tasks' # <<>>
          /\ main_tasks'[Len(main_tasks')] = "stop_streams"]_vars

\* what _on_audio_channel_closed does itself, step by step
C31_ChannelClosedSteps ==
    [][/\ (pc["io"] \in SdsLabels /\ sdsRet["io"] = "cc_after"
             /\ pc'["io"] # pc["io"]) =>
             /\ target["io"] = IDLE
             /\ StepFrom("io", "sds_assign") => device_state' = IDLE
             /\ (StepFrom("io", "sds_check") /\ pc'["io"] = "sds_ret") =>
                   device_state = IDLE
       /\ StepFrom("io", "cc_after") =>
             /\ ~keep_listening' /\ ~wwPaused'
             /\ main_tasks' = Append(main_tasks, "stop_streams")
             /\ schedEvent']_vars

\* the scheduler thread takes a step inside the task _toggle_chat_state_impl
ToggleImplStep(l) ==
    /\ tasks # <<>> /\ IsToggleImpl(Head(tasks))
    /\ StepFrom("main", l)

\* C32: _toggle_chat_state_impl in IDLE calls set_device_state(CONNECTING),
\* requests open_audio_channel iff the channel is not open and waits for
\* the result; only with the result True (or the channel open already) it
\* sets keep_listening, sends start-listening(AUTO_STOP) and calls
\* set_device_state(LISTENING); with the result False, an exception or the
\* 10 s passed it leaves keep_listening as it is, sends nothing and calls
\* set_device_state(IDLE), which assigns IDLE unless it finds IDLE already.
\* In CONNECTING it returns at once and changes nothing.
ToggleSteps ==
    /\ (ToggleImplStep("run") /\ device_state = IDLE) =>
          /\ pc'["main"] = "sds_check" /\ target'["main"] = CONNECTING
          /\ sdsRet'["main"] = "open"
          /\ UNCHANGED <<lastSent, keep_listening, ioQueue, device_state>>
    /\ (ToggleImplStep("run") /\ device_state = CONNECTING) =>
          /\ pc'["main"] = "done"
          /\ UNCHANGED <<appVars, main_tasks, schedEvent, audioVars, wwPaused,
                         protoVars, dispVars, frameVars>>
    /\ (tasks # <<>> /\ IsToggleImpl(Head(tasks)) /\ sdsRet["main"] = "open") =>
          /\ pc'["main"] # "sds_ret"
          /\ StepFrom("main", "sds_assign") => device_state' = CONNECTING
    /\ ToggleImplStep("open") =>
          /\ UNCHANGED <<lastSent, keep_listening, device_state>>
          /\ IF channelOpen
             THEN pc'["main"] = "send" /\ ioQueue' = ioQueue
             ELSE pc'["main"] = "wait" /\ ioQueue' = Append(ioQueue, "open")
    /\ ToggleImplStep("wait") =>
          /\ UNCHANGED <<lastSent, keep_listening, device_state>>
          /\ IF openFuture = "ok"
             THEN pc'["main"] = "send"
             ELSE /\ openFuture \in {"fail", "pending"}
                  /\ pc'["main"] = "sds_check" /\ target'["main"] = IDLE
                  /\ sdsRet'["main"] = "done"
    /\ ToggleImplStep("send") =>
          /\ keep_listening'
          /\ lastSent' = <<"start_listening", "AUTO_STOP">>
          /\ pc'["main"] = "sds_check" /\ target'["main"] = LISTENING
          /\ sdsRet'["main"] = "done"
          /\ device_state' = device_state
    /\ (tasks # <<>> /\ IsToggleImpl(Head(tasks)) /\ pc["main"] \in SdsLabels
          /\ sdsRet["main"] = "done" /\ pc'["main"] # pc["main"]) =>
          /\ UNCHANGED <<lastSent, keep_listening>>
          /\ StepFrom("main", "sds_assign") => device_state' = target["main"]
          /\ (StepFrom("main", "sds_check") /\ pc'["main"] = "sds_ret") =>
                device_state = target["main"]

C32_Toggle == [][ToggleSteps]_vars

\* the open has succeeded: keep_listening is set, start-listening(AUTO_STOP)
\* is out, LISTENING is assigned
C32_Witness ==
    /\ tasks # <<>> /\ IsToggleImpl(Head(tasks))
    /\ pc["main"] = "sds_fx" /\ target["main"] = LISTENING
    /\ device_state = LISTENING /\ keep_listening
    /\ lastSent = <<"start_listening", "AUTO_STOP">>

\* the open has failed or timed out: IDLE is being set, nothing was sent
C32_WitnessFailure ==
    /\ tasks # <<>> /\ IsToggleImpl(Head(tasks))
    /\ pc["main"] = "sds_assign" /\ target["main"] = IDLE
    /\ device_state = CONNECTING /\ ~keep_listening
    /\ lastSent = <<"none", "">>

\* the toggle has been handled in CONNECTING, a wake-word flow being on its
\* way: nothing was sent and no open was requested
C32_WitnessConnecting ==
    /\ tasks # <<>> /\ IsToggleImpl(Head(tasks))
    /\ pc["main"] = "done" /\ device_state = CONNECTING
    /\ flows.connecting = 1 /\ openFuture = "none" /\ ioQueue = <<>>
    /\ lastSent = <<"none", "">> /\ ~keep_listening

\* C33: every audio frame handed to protocol.send_audio is handed over
\* while device_state is LISTENING and the audio channel is open.
C33_AudioSentOnlyListening ==
    \A e \in audioSent : e = <<LISTENING, TRUE>>

\* a frame of the spoken analysis handed to protocol.send_audio while
\* device_state is SPEAKING (lines 574 and 603-606)
C33_VisionFrameWhileSpeaking ==
    <<SPEAKING, TRUE>> \in audioSent

\* the steps a tts-stop worker may take if the deferred transition took
\* effect only in SPEAKING: when its drain wait ends in IDLE it does not go
\* on to send start-listening and calls set_device_state, if at all, with
\* IDLE, and its assignment never takes IDLE to LISTENING
StaleTtsStopSteps ==
    /\ (StepFrom("w1", "w1_wait") /\ device_state = IDLE)
         => /\ pc'["w1"] # "w1_send"
            /\ pc'["w1"] = "sds_check" => target'["w1"] = IDLE
    /\ (StepFrom("w1", "sds_assign") /\ device_state = IDLE)
         => device_state' # LISTENING

\* C34: the deferred transition of a tts 'stop' takes effect only if
\* device_state is still SPEAKING when the drain wait of the worker ends;
\* if the device was moved to IDLE meanwhile the worker neither sends
\* start-listening nor changes device_state, so it never moves the device
\* from IDLE to LISTENING.
C34_StaleTtsStopHasNoEffect == [][StaleTtsStopSteps]_vars

\* the steps that lose no packet of an opening turn: _on_incoming_audio
\* drops no packet while the task of tts 'start' is queued, and
\* _handle_tts_start purges no packet that arrived after its tts 'start'
TurnPacketSteps ==
    /\ dropped' # dropped => ~TurnOpening
    /\ (Running("tts_start") /\ pc'["main"] # "run")
         => \A i \in 1..Len(queue) : queue[i] # "turn"

\* C35: no audio packet of a speech turn is lost at the start of the turn:
\* every packet delivered after the tts 'start' of the turn (and before its
\* 'stop') is appended to the playback queue and is not removed by the purge
\* of that turn's own _handle_tts_start.
C35_NoTurnPacketLost == [][TurnPacketSteps]_vars

\* the edges of device_state the spec allows
AllowedEdges ==
    {<<IDLE, CONNECTING>>, <<IDLE, SPEAKING>>, <<CONNECTING, LISTENING>>,
     <<CONNECTING, IDLE>>, <<LISTENING, IDLE>>, <<LISTENING, SPEAKING>>,
     <<SPEAKING, IDLE>>, <<SPEAKING, LISTENING>>}

\* C36: device_state changes only along IDLE->CONNECTING, IDLE->SPEAKING,
\* CONNECTING->LISTENING, CONNECTING->IDLE, LISTENING->IDLE,
\* LISTENING->SPEAKING, SPEAKING->IDLE and SPEAKING->LISTENING; in
\* particular never from IDLE to LISTENING nor from CONNECTING to SPEAKING.
C36_OnlyAllowedEdges ==
    [][device_state' # device_state
         => <<device_state, device_state'>> \in AllowedEdges]_vars

\* C37: while the device is SPEAKING with a non-empty playback queue an
\* output cycle eventually runs, without further packets having to arrive,
\* so the queue eventually becomes empty (or the device leaves SPEAKING);
\* also in a turn that starts after the device has been IDLE on a channel
\* that is still open.
C37_QueueDrains ==
    (device_state = SPEAKING /\ queue # <<>>)
        ~> (queue = <<>> \/ device_state # SPEAKING)

\* the state C37 excludes: SPEAKING with packets queued, no output cycle
\* signalled, the poller gone and no thread with a step to take, while the
\* server could still send
C37_Stalled ==
    /\ device_state = SPEAKING /\ queue # <<>>
    /\ budget > 0
    /\ ~outEvent /\ ~outPoller
    /\ pc = [t \in Threads |-> IF t = "main" THEN "loop" ELSE "idle"]
    /\ tasks = <<>> /\ main_tasks = <<>>

\* C38: when set_device_state leaves SPEAKING on the scheduler thread, its
\* wait for audio completion does not depend on the time limit of the wait:
\* output cycles run during the wait, so the wait ends with the queue
\* played out.
C38_WaitEndsByPlayout ==
    [][StepFrom("main", "sds_wait") => queue = <<>>]_vars

\* while the scheduler thread waits inside set_device_state no packet leaves
\* the playback queue
C38_NoPlayoutDuringWait ==
    [][pc["main"] = "sds_wait" => Len(queue') >= Len(queue)]_vars

\* C39: abort_speaking sends the abort message and sets the aborted flag
\* only while device_state is SPEAKING, whichever caller runs it (manual
\* start, toggle, vision analysis or the abort callback of the display).
C39_AbortOnlyWhenSpeaking ==
    [][\A t \in Threads :
          StepFrom(t, "abort") => device_state = SPEAKING]_vars

\* the wake-word connect flows (_connect_and_start_listening) in flight:
\* handed to the loop and not yet started, or awaiting connect() or
\* open_audio_channel()
FlowsInFlight ==
    Cardinality({i \in 1..Len(ioQueue) : ioQueue[i] = "flow"})
        + flows.connecting + flows.opening

\* _handle_wake_word_detected run outside IDLE changes nothing
WakeWordOutsideIdleSteps ==
    (Running("wake") /\ device_state # IDLE /\ pc'["main"] # "run")
        => /\ pc'["main"] = "done"
           /\ UNCHANGED <<appVars, schedVars, audioVars, wwPaused, protoVars,
                          dispVars, frameVars>>

\* C40: a wake-word detection handled while device_state is not IDLE has no
\* effect, and at most one wake-word connect flow is in flight at any time.
C40_AtMostOneFlow ==
    /\ [](FlowsInFlight <= 1)
    /\ [][WakeWordOutsideIdleSteps]_vars

\* the handler's part of C40 alone
C40_WakeWordOutsideIdleIgnored == [][WakeWordOutsideIdleSteps]_vars

=============================================================================
